---------------------------- MODULE Spec2Model ----------------------------
(***************************************************************************)
(* A model of go-vectorstore: the filter AST and its three execution       *)
(* strategies, the streaming top-K search of the MSSQL backend, and the    *)
(* write paths (Insert / Upsert / Get) of the MSSQL and Postgres backends. *)
(*                                                                         *)
(* Go strings are sequences of byte codes, so that strings.TrimSpace, the  *)
(* byte-wise string order and fmt.Sprint are computed, not assumed.  A Go  *)
(* value of type `any` is a record [t |-> <dynamic type>, <kind> |-> <value>].  *)
(***************************************************************************)
EXTENDS Integers, Sequences, FiniteSets, TLC

(***************************************************************************)
(* Strings                                                                 *)
(***************************************************************************)
\* The byte codes the model reads.
Byte == [space |-> 32, quote |-> 34, dollar |-> 36, minus |-> 45, dot |-> 46,
         zero |-> 48, colon |-> 58,
         lbracket |-> 91, backslash |-> 92, rbracket |-> 93]

strEmpty == << >>
strId == <<105, 100>>                                \* "id"
strContent == <<99, 111, 110, 116, 101, 110, 116>>   \* "content"
strBogus == <<98, 111, 103, 117, 115>>               \* "bogus"
strTrue == <<116, 114, 117, 101>>                    \* "true"
strFalse == <<102, 97, 108, 115, 101>>               \* "false"
strNilText == <<60, 110, 105, 108, 62>>              \* "<nil>"
strA == <<97>>                                       \* "a"
strB == <<98>>                                       \* "b"
strC == <<99>>                                       \* "c"
strD == <<100>>                                      \* "d"
strK == <<107>>                                      \* "k"
strN == <<110>>                                      \* "n"
strTen == <<49, 48>>                                 \* "10"
strFive == <<53>>                                    \* "5"
strMapOpen == <<109, 97, 112, 91>>
strUpperTrue == <<84, 82, 85, 69>>                   \* "TRUE"

\* Go's < on strings: byte-wise lexicographic order.
RECURSIVE StringLess(_, _)
StringLess(a, b) ==
    IF b = << >> THEN FALSE
    ELSE IF a = << >> THEN TRUE
    ELSE IF Head(a) # Head(b) THEN Head(a) < Head(b)
    ELSE StringLess(Tail(a), Tail(b))

\* strings.TrimSpace, for the one white-space byte of the model.
RECURSIVE TrimLeft(_)
TrimLeft(s) ==
    IF s # << >> /\ Head(s) = Byte.space THEN TrimLeft(Tail(s)) ELSE s

RECURSIVE TrimRight(_)
TrimRight(s) ==
    IF s # << >> /\ s[Len(s)] = Byte.space
    THEN TrimRight(SubSeq(s, 1, Len(s) - 1))
    ELSE s

TrimSpace(s) == TrimRight(TrimLeft(s))

\* strings.ToLower / SQL LOWER on ASCII.
ToLower(s) == [i \in 1..Len(s) |-> IF s[i] >= 65 /\ s[i] <= 90 THEN s[i] + 32 ELSE s[i]]

\* strconv formatting of an integer-valued number.
RECURSIVE FormatNat(_)
FormatNat(n) ==
    IF n < 10 THEN <<Byte.zero + n>>
    ELSE Append(FormatNat(n \div 10), Byte.zero + (n % 10))

FormatInt(n) == IF n < 0 THEN <<Byte.minus>> \o FormatNat(-n) ELSE FormatNat(n)

IsDigits(s) == s # << >> /\ \A i \in 1..Len(s) : s[i] >= Byte.zero /\ s[i] <= Byte.zero + 9

RECURSIVE ParseNat(_)
ParseNat(s) ==
    IF s = << >> THEN 0
    ELSE 10 * ParseNat(SubSeq(s, 1, Len(s) - 1)) + (s[Len(s)] - Byte.zero)

(***************************************************************************)
(* Go values (`any`) and JSON                                              *)
(***************************************************************************)
GoNil == [t |-> "nil", nil |-> 0]
GoString(s) == [t |-> "string", str |-> s]
GoInt(n) == [t |-> "int", num |-> n]
GoFloat64(n) == [t |-> "float64", num |-> n]
GoBool(b) == [t |-> "bool", bool |-> b]
GoMap(m) == [t |-> "map", map |-> m]
GoSlice(s) == [t |-> "slice", seq |-> s]

EmptyMap == [x \in {} |-> GoNil]

\* A JSON document is its syntax tree; a number keeps its literal value.
JNull == [j |-> "null", nil |-> 0]
JString(s) == [j |-> "string", str |-> s]
JNumber(n) == [j |-> "number", num |-> n]
JBool(b) == [j |-> "bool", bool |-> b]
JObject(m) == [j |-> "object", map |-> m]
JArray(s) == [j |-> "array", seq |-> s]

\* toFloat64: the Go numeric kinds coerce, everything else does not.
toFloat64(value) ==
    IF value.t \in {"int", "float64"}
    THEN [ok |-> TRUE, n |-> value.num]
    ELSE [ok |-> FALSE, n |-> 0]

\* fmt.Sprint of the values the model holds.
\* (maps print as map[k:v ...] with sorted keys, slices as [a b ...]).
RECURSIVE SortedKeys(_)
SortedKeys(keys) ==
    IF keys = {} THEN << >>
    ELSE LET first == CHOOSE k \in keys : \A other \in keys \ {k} : StringLess(k, other)
         IN <<first>> \o SortedKeys(keys \ {first})

RECURSIVE Sprint(_)
RECURSIVE SprintEntries(_, _)
RECURSIVE SprintElements(_)
Sprint(value) ==
    CASE value.t = "string" -> value.str
      [] value.t \in {"int", "float64"} -> FormatInt(value.num)
      [] value.t = "bool" -> IF value.bool THEN strTrue ELSE strFalse
      [] value.t = "map" ->
           strMapOpen \o SprintEntries(value.map, SortedKeys(DOMAIN value.map)) \o <<Byte.rbracket>>
      [] value.t = "slice" -> <<Byte.lbracket>> \o SprintElements(value.seq) \o <<Byte.rbracket>>
      [] OTHER -> strNilText

SprintEntries(m, keys) ==
    IF keys = << >> THEN << >>
    ELSE Head(keys) \o <<Byte.colon>> \o Sprint(m[Head(keys)])
         \o (IF Len(keys) > 1 THEN <<Byte.space>> ELSE << >>)
         \o SprintEntries(m, Tail(keys))

SprintElements(elems) ==
    IF elems = << >> THEN << >>
    ELSE Sprint(Head(elems))
         \o (IF Len(elems) > 1 THEN <<Byte.space>> ELSE << >>)
         \o SprintElements(Tail(elems))


(***************************************************************************)
(* Errors.  "" is Go's nil error; the others are the sentinels an error    *)
(* matches with errors.Is.  A storage error is one the driver returned.    *)
(***************************************************************************)
NoError == ""
ErrNotFound == "ErrNotFound"
ErrDimensionMismatch == "ErrDimensionMismatch"
ErrSchemaMismatch == "ErrSchemaMismatch"
ErrInvalidFilter == "ErrInvalidFilter"
errFilterPushdownUnsupported == "errFilterPushdownUnsupported"

(***************************************************************************)
(* The filter AST                                                          *)
(***************************************************************************)
FieldColumn == "column"
FieldMetadata == "metadata"

Column(name) == [Kind |-> FieldColumn, Name |-> name, Path |-> << >>]
Metadata(path) == [Kind |-> FieldMetadata, Name |-> << >>, Path |-> path]

\* A nil Filter interface value.
NilFilter == [op |-> "nil"]
Eq(field, value) == [op |-> "Eq", Field |-> field, Value |-> value]
In(field, values) == [op |-> "In", Field |-> field, Values |-> values]
Gt(field, value) == [op |-> "Gt", Field |-> field, Value |-> value]
Lt(field, value) == [op |-> "Lt", Field |-> field, Value |-> value]
Exists(field) == [op |-> "Exists", Field |-> field]
And(children) == [op |-> "And", Children |-> children]
Or(children) == [op |-> "Or", Children |-> children]
Not(child) == [op |-> "Not", Child |-> child]

idColumn == strId
contentColumn == strContent

\* NormalizeFieldRef: trims every component, rejects empty ones.
NormalizeFieldRef(ref) ==
    CASE ref.Kind = FieldColumn ->
           IF TrimSpace(ref.Name) = strEmpty
           THEN [err |-> ErrInvalidFilter, ref |-> ref]
           ELSE [err |-> NoError, ref |-> Column(TrimSpace(ref.Name))]
      [] ref.Kind = FieldMetadata ->
           IF Len(ref.Path) = 0
              \/ \E i \in 1..Len(ref.Path) : TrimSpace(ref.Path[i]) = strEmpty
           THEN [err |-> ErrInvalidFilter, ref |-> ref]
           ELSE [err |-> NoError,
                 ref |-> Metadata([i \in 1..Len(ref.Path) |-> TrimSpace(ref.Path[i])])]
      [] OTHER -> [err |-> ErrInvalidFilter, ref |-> ref]

(***************************************************************************)
(* The in-process evaluator (matchesFilter)                                *)
(***************************************************************************)
Resolved(value, exists, err) == [value |-> value, exists |-> exists, err |-> err]

\* The segment loop of resolveFieldValue over the current value.
RECURSIVE walkMetadataPath(_, _)
walkMetadataPath(current, path) ==
    IF path = << >> THEN Resolved(current, TRUE, NoError)
    ELSE LET key == TrimSpace(Head(path)) IN
         IF key = strEmpty THEN Resolved(GoNil, FALSE, ErrInvalidFilter)
         ELSE IF current.t # "map" THEN Resolved(GoNil, FALSE, NoError)
         ELSE IF key \notin DOMAIN current.map THEN Resolved(GoNil, FALSE, NoError)
         ELSE walkMetadataPath(current.map[key], Tail(path))

\* A resolution that takes a stored null for an absent key.
resolveFieldValueNullAbsent(field, record) ==
    LET walked == IF field.Kind = FieldMetadata /\ Len(field.Path) > 0
                     /\ record.Metadata # GoNil
                  THEN walkMetadataPath(record.Metadata, field.Path)
                  ELSE Resolved(GoNil, FALSE, ErrInvalidFilter)
    IN
    CASE field.Kind = FieldColumn ->
           LET name == TrimSpace(field.Name) IN
           IF name = strEmpty THEN Resolved(GoNil, FALSE, ErrInvalidFilter)
           ELSE IF name = idColumn THEN Resolved(GoString(record.ID), TRUE, NoError)
           ELSE IF name = contentColumn
                THEN IF record.Content = GoNil
                     THEN Resolved(GoNil, FALSE, NoError)
                     ELSE Resolved(record.Content, TRUE, NoError)
           ELSE Resolved(GoNil, FALSE, ErrInvalidFilter)
      [] field.Kind = FieldMetadata ->
           IF Len(field.Path) = 0 THEN Resolved(GoNil, FALSE, ErrInvalidFilter)
           ELSE IF record.Metadata = GoNil THEN Resolved(GoNil, FALSE, NoError)
           ELSE IF walked.value = GoNil THEN Resolved(GoNil, FALSE, walked.err)
           ELSE walked
      [] OTHER -> Resolved(GoNil, FALSE, ErrInvalidFilter)

resolveFieldValue(field, record) ==
    CASE field.Kind = FieldColumn ->
           LET name == TrimSpace(field.Name) IN
           IF name = strEmpty THEN Resolved(GoNil, FALSE, ErrInvalidFilter)
           ELSE IF name = idColumn THEN Resolved(GoString(record.ID), TRUE, NoError)
           ELSE IF name = contentColumn
                THEN IF record.Content = GoNil
                     THEN Resolved(GoNil, FALSE, NoError)
                     ELSE Resolved(record.Content, TRUE, NoError)
           ELSE Resolved(GoNil, FALSE, ErrInvalidFilter)
      [] field.Kind = FieldMetadata ->
           IF Len(field.Path) = 0 THEN Resolved(GoNil, FALSE, ErrInvalidFilter)
           ELSE IF record.Metadata = GoNil THEN Resolved(GoNil, FALSE, NoError)
           ELSE walkMetadataPath(record.Metadata, field.Path)
      [] OTHER -> Resolved(GoNil, FALSE, ErrInvalidFilter)

\* reflect.DeepEqual on dynamically typed values: same type and same value.
DeepEqual(left, right) == left = right

valuesEqual(left, right) ==
    IF left = GoNil \/ right = GoNil THEN left = right
    ELSE IF toFloat64(left).ok /\ toFloat64(right).ok
         THEN toFloat64(left).n = toFloat64(right).n
    ELSE DeepEqual(left, right)

compareValues(left, right) ==
    IF toFloat64(left).ok /\ toFloat64(right).ok
    THEN (IF toFloat64(left).n < toFloat64(right).n THEN -1
          ELSE IF toFloat64(left).n > toFloat64(right).n THEN 1 ELSE 0)
    ELSE (IF StringLess(Sprint(left), Sprint(right)) THEN -1
          ELSE IF StringLess(Sprint(right), Sprint(left)) THEN 1 ELSE 0)

Match(ok, err) == [ok |-> ok, err |-> err]

RECURSIVE matchesFilter(_, _)
\* The child loop of an And (stopOn = FALSE) or an Or (stopOn = TRUE).
RECURSIVE matchesChildren(_, _, _)
matchesChildren(children, record, stopOn) ==
    IF children = << >> THEN Match(~stopOn, NoError)
    ELSE IF Head(children) = NilFilter THEN Match(FALSE, ErrInvalidFilter)
    ELSE LET m == matchesFilter(Head(children), record) IN
         IF m.err # NoError THEN Match(FALSE, m.err)
         ELSE IF m.ok = stopOn THEN Match(stopOn, NoError)
         ELSE matchesChildren(Tail(children), record, stopOn)

matchesFilter(filter, record) ==
    CASE filter.op = "nil" -> Match(TRUE, NoError)
      [] filter.op = "Eq" ->
           LET r == resolveFieldValue(filter.Field, record) IN
           IF r.err # NoError THEN Match(FALSE, r.err)
           ELSE IF ~r.exists THEN Match(FALSE, NoError)
           ELSE Match(valuesEqual(r.value, filter.Value), NoError)
      [] filter.op = "In" ->
           IF Len(filter.Values) = 0 THEN Match(FALSE, ErrInvalidFilter)
           ELSE LET r == resolveFieldValue(filter.Field, record) IN
                IF r.err # NoError THEN Match(FALSE, r.err)
                ELSE IF ~r.exists THEN Match(FALSE, NoError)
                ELSE Match(\E i \in 1..Len(filter.Values) :
                               valuesEqual(r.value, filter.Values[i]), NoError)
      [] filter.op = "Gt" ->
           LET r == resolveFieldValue(filter.Field, record) IN
           IF r.err # NoError THEN Match(FALSE, r.err)
           ELSE IF ~r.exists THEN Match(FALSE, NoError)
           ELSE Match(compareValues(r.value, filter.Value) > 0, NoError)
      [] filter.op = "Lt" ->
           LET r == resolveFieldValue(filter.Field, record) IN
           IF r.err # NoError THEN Match(FALSE, r.err)
           ELSE IF ~r.exists THEN Match(FALSE, NoError)
           ELSE Match(compareValues(r.value, filter.Value) < 0, NoError)
      [] filter.op = "Exists" ->
           LET r == resolveFieldValue(filter.Field, record) IN
           IF r.err # NoError THEN Match(FALSE, r.err)
           ELSE Match(r.exists, NoError)
      [] filter.op = "And" ->
           IF Len(filter.Children) = 0 THEN Match(FALSE, ErrInvalidFilter)
           ELSE matchesChildren(filter.Children, record, FALSE)
      [] filter.op = "Or" ->
           IF Len(filter.Children) = 0 THEN Match(FALSE, ErrInvalidFilter)
           ELSE matchesChildren(filter.Children, record, TRUE)
      [] filter.op = "Not" ->
           IF filter.Child = NilFilter THEN Match(FALSE, ErrInvalidFilter)
           ELSE LET m == matchesFilter(filter.Child, record) IN
                IF m.err # NoError THEN Match(FALSE, m.err)
                ELSE Match(~m.ok, NoError)
      [] OTHER -> Match(FALSE, ErrInvalidFilter)


(***************************************************************************)
(* The restricted (MSSQL) filter compiler.  The SQL text is kept as its    *)
(* syntax tree; a placeholder @pN is the number N.                         *)
(***************************************************************************)
ColExpr(name) == [e |-> "col", name |-> name]
JsonValueExpr(ph) == [e |-> "JSON_VALUE", path |-> ph]
LowerExpr(x) == [e |-> "LOWER", arg |-> x]
TryConvertFloatExpr(x) == [e |-> "TRY_CONVERT", arg |-> x]

SqlCmp(lhs, op, ph) == [k |-> "cmp", lhs |-> lhs, cmp |-> op, rhs |-> ph]
SqlIn(lhs, phs) == [k |-> "in", lhs |-> lhs, rhs |-> phs]
SqlIsNotNull(lhs) == [k |-> "isnotnull", lhs |-> lhs]
SqlPathExists(ph) == [k |-> "pathexists", path |-> ph]
SqlLogical(op, parts) == [k |-> "logical", lop |-> op, parts |-> parts]
SqlNot(part) == [k |-> "not", part |-> part]
NoSql == [k |-> "none"]

\* mssqlFilterCompiler: the arguments bound so far and the next number.
Compiler(args, nextArg) == [args |-> args, nextArg |-> nextArg]
Compiled(err, sql, c) == [err |-> err, sql |-> sql, c |-> c]

\* A bind that hands out the same placeholder again.
bindWithoutAdvancing(c, value) == Compiler(Append(c.args, value), c.nextArg)

\* bind: the compiler after binding value; the placeholder is the old nextArg.
bind(c, value) == Compiler(Append(c.args, value), c.nextArg + 1)

\* strings.ReplaceAll of \ and " by their escaped forms.
RECURSIVE escapeSegment(_)
escapeSegment(s) ==
    IF s = << >> THEN << >>
    ELSE IF Head(s) \in {Byte.backslash, Byte.quote}
         THEN <<Byte.backslash, Head(s)>> \o escapeSegment(Tail(s))
         ELSE <<Head(s)>> \o escapeSegment(Tail(s))

RECURSIVE pathSegments(_)
pathSegments(path) ==
    IF path = << >> THEN << >>
    ELSE <<Byte.dot, Byte.quote>> \o escapeSegment(Head(path)) \o <<Byte.quote>>
         \o pathSegments(Tail(path))

metadataPathLiteral(path) == <<Byte.dollar>> \o pathSegments(path)

Resolution(err, columnExpr, metadataPath, isMetadata) ==
    [err |-> err, columnExpr |-> columnExpr, metadataPath |-> metadataPath,
     isMetadata |-> isMetadata]

mssqlResolveField(ref) ==
    LET n == NormalizeFieldRef(ref) IN
    IF n.err # NoError THEN Resolution(n.err, ColExpr(strEmpty), strEmpty, FALSE)
    ELSE IF n.ref.Kind = FieldColumn
         THEN IF n.ref.Name \in {idColumn, contentColumn}
              THEN Resolution(NoError, ColExpr(n.ref.Name), strEmpty, FALSE)
              ELSE Resolution(ErrInvalidFilter, ColExpr(strEmpty), strEmpty, FALSE)
         ELSE Resolution(NoError, ColExpr(strEmpty), metadataPathLiteral(n.ref.Path), TRUE)

\* A metadata equality whose text depends on the value: LOWER(...) is
\* written for true only.
mssqlCompileMetadataEqByValue(c, metadataPath, value) ==
    LET c1 == bind(c, GoString(metadataPath))
        valueExpr == JsonValueExpr(c.nextArg)
    IN
    CASE value.t = "nil" -> Compiled(errFilterPushdownUnsupported, NoSql, c1)
      [] value.t = "string" ->
           Compiled(NoError, SqlCmp(valueExpr, "=", c1.nextArg), bind(c1, value))
      [] value.t = "bool" ->
           Compiled(NoError,
                    SqlCmp(IF value.bool THEN LowerExpr(valueExpr) ELSE valueExpr,
                           "=", c1.nextArg),
                    bind(c1, GoString(IF value.bool THEN strTrue ELSE strFalse)))
      [] OTHER ->
           IF toFloat64(value).ok
           THEN Compiled(NoError, SqlCmp(TryConvertFloatExpr(valueExpr), "=", c1.nextArg),
                         bind(c1, GoFloat64(toFloat64(value).n)))
           ELSE Compiled(errFilterPushdownUnsupported, NoSql, c1)

mssqlCompileMetadataEq(c, metadataPath, value) ==
    LET c1 == bind(c, GoString(metadataPath))
        valueExpr == JsonValueExpr(c.nextArg)
    IN
    CASE value.t = "nil" -> Compiled(errFilterPushdownUnsupported, NoSql, c1)
      [] value.t = "string" ->
           Compiled(NoError, SqlCmp(valueExpr, "=", c1.nextArg), bind(c1, value))
      [] value.t = "bool" ->
           Compiled(NoError, SqlCmp(LowerExpr(valueExpr), "=", c1.nextArg),
                    bind(c1, GoString(IF value.bool THEN strTrue ELSE strFalse)))
      [] OTHER ->
           IF toFloat64(value).ok
           THEN Compiled(NoError, SqlCmp(TryConvertFloatExpr(valueExpr), "=", c1.nextArg),
                         bind(c1, GoFloat64(toFloat64(value).n)))
           ELSE Compiled(errFilterPushdownUnsupported, NoSql, c1)

\* The value loop of compileIn on a column: every value must be a string.
RECURSIVE mssqlBindStrings(_, _, _)
mssqlBindStrings(c, values, phs) ==
    IF values = << >> THEN [err |-> NoError, phs |-> phs, c |-> c]
    ELSE IF Head(values).t # "string"
         THEN [err |-> errFilterPushdownUnsupported, phs |-> phs, c |-> c]
         ELSE mssqlBindStrings(bind(c, Head(values)), Tail(values), Append(phs, c.nextArg))

\* The value loop of compileIn on a metadata path.
RECURSIVE mssqlMetadataIn(_, _, _, _)
mssqlMetadataIn(c, metadataPath, values, predicates) ==
    IF values = << >> THEN Compiled(NoError, SqlLogical("OR", predicates), c)
    ELSE LET p == mssqlCompileMetadataEq(c, metadataPath, Head(values)) IN
         IF p.err # NoError THEN Compiled(p.err, NoSql, p.c)
         ELSE mssqlMetadataIn(p.c, metadataPath, Tail(values), Append(predicates, p.sql))

\* A comparison that answers InvalidFilter for a non-string column value.
mssqlCompileComparisonInvalidFilter(c, node, op) ==
    LET f == mssqlResolveField(node.Field) IN
    IF f.err # NoError THEN Compiled(f.err, NoSql, c)
    ELSE IF ~f.isMetadata
         THEN IF node.Value.t # "string"
              THEN Compiled(ErrInvalidFilter, NoSql, c)
              ELSE Compiled(NoError, SqlCmp(f.columnExpr, op, c.nextArg), bind(c, node.Value))
    ELSE IF op = "=" THEN mssqlCompileMetadataEq(c, f.metadataPath, node.Value)
    ELSE IF toFloat64(node.Value).ok
         THEN LET c1 == bind(c, GoString(f.metadataPath)) IN
              Compiled(NoError,
                       SqlCmp(TryConvertFloatExpr(JsonValueExpr(c.nextArg)), op, c1.nextArg),
                       bind(c1, GoFloat64(toFloat64(node.Value).n)))
    ELSE Compiled(errFilterPushdownUnsupported, NoSql, c)

\* compileEq, compileGt and compileLt differ in the operator and, on a
\* metadata path, in the values they accept.
mssqlCompileComparison(c, node, op) ==
    LET f == mssqlResolveField(node.Field) IN
    IF f.err # NoError THEN Compiled(f.err, NoSql, c)
    ELSE IF ~f.isMetadata
         THEN IF node.Value.t # "string"
              THEN Compiled(errFilterPushdownUnsupported, NoSql, c)
              ELSE Compiled(NoError, SqlCmp(f.columnExpr, op, c.nextArg), bind(c, node.Value))
    ELSE IF op = "=" THEN mssqlCompileMetadataEq(c, f.metadataPath, node.Value)
    ELSE IF toFloat64(node.Value).ok
         THEN LET c1 == bind(c, GoString(f.metadataPath)) IN
              Compiled(NoError,
                       SqlCmp(TryConvertFloatExpr(JsonValueExpr(c.nextArg)), op, c1.nextArg),
                       bind(c1, GoFloat64(toFloat64(node.Value).n)))
    ELSE Compiled(errFilterPushdownUnsupported, NoSql, c)

mssqlCompileIn(c, node) ==
    IF Len(node.Values) = 0 THEN Compiled(ErrInvalidFilter, NoSql, c)
    ELSE LET f == mssqlResolveField(node.Field) IN
         IF f.err # NoError THEN Compiled(f.err, NoSql, c)
         ELSE IF ~f.isMetadata
              THEN LET b == mssqlBindStrings(c, node.Values, << >>) IN
                   IF b.err # NoError THEN Compiled(b.err, NoSql, b.c)
                   ELSE Compiled(NoError, SqlIn(f.columnExpr, b.phs), b.c)
         ELSE mssqlMetadataIn(c, f.metadataPath, node.Values, << >>)

mssqlCompileExists(c, node) ==
    LET f == mssqlResolveField(node.Field) IN
    IF f.err # NoError THEN Compiled(f.err, NoSql, c)
    ELSE IF ~f.isMetadata THEN Compiled(NoError, SqlIsNotNull(f.columnExpr), c)
    ELSE Compiled(NoError, SqlPathExists(c.nextArg), bind(c, GoString(f.metadataPath)))

RECURSIVE mssqlCompile(_, _)
\* The child loop of compileLogical.
RECURSIVE mssqlCompileChildren(_, _, _, _)
mssqlCompileChildren(c, op, children, parts) ==
    IF children = << >> THEN Compiled(NoError, SqlLogical(op, parts), c)
    ELSE IF Head(children) = NilFilter THEN Compiled(ErrInvalidFilter, NoSql, c)
    ELSE LET p == mssqlCompile(c, Head(children)) IN
         IF p.err # NoError THEN Compiled(p.err, NoSql, p.c)
         ELSE mssqlCompileChildren(p.c, op, Tail(children), Append(parts, p.sql))

mssqlCompileLogical(c, op, children) ==
    IF Len(children) = 0 THEN Compiled(ErrInvalidFilter, NoSql, c)
    ELSE mssqlCompileChildren(c, op, children, << >>)

mssqlCompile(c, filter) ==
    CASE filter.op = "Eq" -> mssqlCompileComparison(c, filter, "=")
      [] filter.op = "In" -> mssqlCompileIn(c, filter)
      [] filter.op = "Gt" -> mssqlCompileComparison(c, filter, ">")
      [] filter.op = "Lt" -> mssqlCompileComparison(c, filter, "<")
      [] filter.op = "Exists" -> mssqlCompileExists(c, filter)
      [] filter.op = "And" -> mssqlCompileLogical(c, "AND", filter.Children)
      [] filter.op = "Or" -> mssqlCompileLogical(c, "OR", filter.Children)
      [] filter.op = "Not" ->
           IF filter.Child = NilFilter THEN Compiled(ErrInvalidFilter, NoSql, c)
           ELSE LET p == mssqlCompile(c, filter.Child) IN
                IF p.err # NoError THEN Compiled(p.err, NoSql, p.c)
                ELSE Compiled(NoError, SqlNot(p.sql), p.c)
      [] OTHER -> Compiled(ErrInvalidFilter, NoSql, c)

\* compileMSSQLFilterSQL: (sql, args, nextArg, err).
FilterSQL(sql, args, nextArg, err) ==
    [sql |-> sql, args |-> args, nextArg |-> nextArg, err |-> err]

compileMSSQLFilterSQL(filter, startArg) ==
    LET start == IF startArg < 1 THEN 1 ELSE startArg IN
    IF filter = NilFilter THEN FilterSQL(NoSql, << >>, start, NoError)
    ELSE LET out == mssqlCompile(Compiler(<< >>, start), filter) IN
         IF out.err # NoError THEN FilterSQL(NoSql, << >>, start, out.err)
         ELSE FilterSQL(out.sql, out.c.args, out.c.nextArg, NoError)


(***************************************************************************)
(* SQL Server's evaluation of a compiled predicate on a stored row.  A row *)
(* is [id, vector, metadata, content]: vector and metadata hold JSON text, *)
(* content is NULL or a string.  Predicates are three-valued; a WHERE      *)
(* clause selects the rows on which the predicate is TRUE.  String         *)
(* comparison is taken under a binary collation.                           *)
(***************************************************************************)
SqlNull == [s |-> "NULL", nil |-> 0]
NVarchar(x) == [s |-> "nvarchar", str |-> x]
SqlFloat(n) == [s |-> "float", num |-> n]

\* The text between the quotes of one path step, unescaped.
RECURSIVE readQuoted(_, _)
readQuoted(s, acc) ==
    IF s = << >> THEN [ok |-> FALSE, key |-> acc, rest |-> << >>]
    ELSE IF Head(s) = Byte.quote THEN [ok |-> TRUE, key |-> acc, rest |-> Tail(s)]
    ELSE IF Head(s) = Byte.backslash /\ Len(s) >= 2
         THEN readQuoted(Tail(Tail(s)), Append(acc, s[2]))
    ELSE readQuoted(Tail(s), Append(acc, Head(s)))

RECURSIVE parsePathSteps(_, _)
parsePathSteps(s, keys) ==
    IF s = << >> THEN [ok |-> TRUE, keys |-> keys]
    ELSE IF Len(s) >= 2 /\ s[1] = Byte.dot /\ s[2] = Byte.quote
         THEN LET r == readQuoted(SubSeq(s, 3, Len(s)), << >>) IN
              IF r.ok THEN parsePathSteps(r.rest, Append(keys, r.key))
              ELSE [ok |-> FALSE, keys |-> keys]
    ELSE [ok |-> FALSE, keys |-> keys]

\* A JSON path of the form $."a"."b".
ParseJSONPath(lit) ==
    IF lit # << >> /\ Head(lit) = Byte.dollar
    THEN parsePathSteps(Tail(lit), << >>)
    ELSE [ok |-> FALSE, keys |-> << >>]

RECURSIVE jsonNavigate(_, _)
jsonNavigate(doc, keys) ==
    IF keys = << >> THEN [found |-> TRUE, value |-> doc]
    ELSE IF doc.j = "object" /\ Head(keys) \in DOMAIN doc.map
         THEN jsonNavigate(doc.map[Head(keys)], Tail(keys))
    ELSE [found |-> FALSE, value |-> JNull]

\* JSON_VALUE in lax mode: the scalar at the path as text, NULL for a
\* missing path, a JSON null, an object or an array.
JSON_VALUE(doc, lit) ==
    LET p == ParseJSONPath(lit)
        r == jsonNavigate(doc, p.keys)
    IN
    IF ~p.ok \/ ~r.found THEN SqlNull
    ELSE CASE r.value.j = "string" -> NVarchar(r.value.str)
           [] r.value.j = "number" -> NVarchar(FormatInt(r.value.num))
           [] r.value.j = "bool" -> NVarchar(IF r.value.bool THEN strTrue ELSE strFalse)
           [] OTHER -> SqlNull

\* JSON_PATH_EXISTS: 1 when the path leads to a value, a JSON null included.
JSON_PATH_EXISTS(doc, lit) ==
    LET p == ParseJSONPath(lit) IN
    IF p.ok /\ jsonNavigate(doc, p.keys).found THEN 1 ELSE 0

\* TRY_CONVERT(float, text): NULL when the text is not a number.
TRY_CONVERT_float(x) ==
    IF x = SqlNull THEN SqlNull
    ELSE IF x.str = << >> THEN SqlFloat(0)
    ELSE IF IsDigits(x.str) THEN SqlFloat(ParseNat(x.str))
    ELSE IF Head(x.str) = Byte.minus /\ IsDigits(Tail(x.str)) THEN SqlFloat(0 - ParseNat(Tail(x.str)))
    ELSE SqlNull

\* A bound Go argument as the driver passes it.
SqlParam(value) ==
    IF value.t = "string" THEN NVarchar(value.str) ELSE SqlFloat(value.num)

SqlArg(args, startArg, ph) == SqlParam(args[ph - startArg + 1])

RECURSIVE evalSqlExpr(_, _, _, _)
evalSqlExpr(expr, args, startArg, row) ==
    CASE expr.e = "col" -> IF expr.name = idColumn THEN NVarchar(row.id) ELSE row.content
      [] expr.e = "JSON_VALUE" -> JSON_VALUE(row.metadata, SqlArg(args, startArg, expr.path).str)
      [] expr.e = "LOWER" ->
           LET x == evalSqlExpr(expr.arg, args, startArg, row) IN
           IF x = SqlNull THEN SqlNull ELSE NVarchar(ToLower(x.str))
      [] expr.e = "TRY_CONVERT" -> TRY_CONVERT_float(evalSqlExpr(expr.arg, args, startArg, row))

SqlCompare(l, op, r) ==
    IF l = SqlNull \/ r = SqlNull THEN "U"
    ELSE LET less(a, b) == IF a.s = "nvarchar" THEN StringLess(a.str, b.str) ELSE a.num < b.num IN
         CASE op = "=" -> IF l = r THEN "T" ELSE "F"
           [] op = ">" -> IF less(r, l) THEN "T" ELSE "F"
           [] op = "<" -> IF less(l, r) THEN "T" ELSE "F"

SqlAnd(truths) ==
    IF "F" \in truths THEN "F" ELSE IF "U" \in truths THEN "U" ELSE "T"

SqlOr(truths) ==
    IF "T" \in truths THEN "T" ELSE IF "U" \in truths THEN "U" ELSE "F"

RECURSIVE evalSqlPredicate(_, _, _, _)
evalSqlPredicate(sql, args, startArg, row) ==
    CASE sql.k = "cmp" ->
           SqlCompare(evalSqlExpr(sql.lhs, args, startArg, row), sql.cmp,
                      SqlArg(args, startArg, sql.rhs))
      [] sql.k = "in" ->
           SqlOr({SqlCompare(evalSqlExpr(sql.lhs, args, startArg, row), "=",
                             SqlArg(args, startArg, sql.rhs[i])) : i \in 1..Len(sql.rhs)})
      [] sql.k = "isnotnull" ->
           IF evalSqlExpr(sql.lhs, args, startArg, row) = SqlNull THEN "F" ELSE "T"
      [] sql.k = "pathexists" ->
           IF JSON_PATH_EXISTS(row.metadata, SqlArg(args, startArg, sql.path).str) = 1
           THEN "T" ELSE "F"
      [] sql.k = "logical" ->
           LET truths == {evalSqlPredicate(sql.parts[i], args, startArg, row) :
                            i \in 1..Len(sql.parts)} IN
           IF sql.lop = "AND" THEN SqlAnd(truths) ELSE SqlOr(truths)
      [] sql.k = "not" ->
           LET t == evalSqlPredicate(sql.part, args, startArg, row) IN
           IF t = "T" THEN "F" ELSE IF t = "F" THEN "T" ELSE "U"

\* WHERE <predicate>: an empty fragment selects every row.
SqlSelects(sql, args, startArg, row) ==
    sql = NoSql \/ evalSqlPredicate(sql, args, startArg, row) = "T"


(***************************************************************************)
(* The JSON codec of the MSSQL helpers                                     *)
(***************************************************************************)
\* encoding/json on a value of type any.
RECURSIVE GoToJson(_)
GoToJson(value) ==
    CASE value.t = "nil" -> JNull
      [] value.t = "string" -> JString(value.str)
      [] value.t \in {"int", "float64"} -> JNumber(value.num)
      [] value.t = "bool" -> JBool(value.bool)
      [] value.t = "map" -> JObject([key \in DOMAIN value.map |-> GoToJson(value.map[key])])
      [] value.t = "slice" -> JArray([i \in 1..Len(value.seq) |-> GoToJson(value.seq[i])])

\* json.Unmarshal into any: every number becomes a float64.
RECURSIVE JsonToGo(_)
JsonToGo(doc) ==
    CASE doc.j = "null" -> GoNil
      [] doc.j = "string" -> GoString(doc.str)
      [] doc.j = "number" -> GoFloat64(doc.num)
      [] doc.j = "bool" -> GoBool(doc.bool)
      [] doc.j = "object" -> GoMap([key \in DOMAIN doc.map |-> JsonToGo(doc.map[key])])
      [] doc.j = "array" -> GoSlice([i \in 1..Len(doc.seq) |-> JsonToGo(doc.seq[i])])

normalizeMetadata(metadata) == IF metadata = GoNil THEN GoMap(EmptyMap) ELSE metadata

metadataJSON(metadata) == GoToJson(normalizeMetadata(metadata))

\* The stored text is a JSON object or null; both decode to a non-nil map.
parseMetadataJSON(raw) ==
    IF raw.j = "null" THEN GoMap(EmptyMap) ELSE JsonToGo(raw)


(***************************************************************************)
(* The full (Postgres) filter compiler, vectordata.CompileFilterSQL.  It   *)
(* shares the syntax tree above; a placeholder $N is the number N.  A      *)
(* metadata path is written into the statement as quoted literals.         *)
(***************************************************************************)
JsonbPathExpr(metadataExpr, path) == [e |-> "#>", of |-> metadataExpr, path |-> path]
PathTextExpr(metadataExpr, path) ==
    [e |-> "jsonb_extract_path_text", of |-> metadataExpr, path |-> path]
DoublePrecisionExpr(x) == [e |-> "::double precision", arg |-> x]

SqlCmpJsonb(lhs, ph) == [k |-> "cmpjsonb", lhs |-> lhs, rhs |-> ph]
SqlInJsonb(lhs, phs) == [k |-> "injsonb", lhs |-> lhs, rhs |-> phs]

\* FilterSQLConfig; PostgresCollection.filterConfig maps id and content to
\* their quoted identifiers and names the metadata column.
FilterSQLConfig(columnExpr, metadataExpr) ==
    [ColumnExpr |-> columnExpr, MetadataExpr |-> metadataExpr]

filterConfig ==
    FilterSQLConfig([name \in {idColumn, contentColumn} |-> ColExpr(name)], "\"metadata\"")

\* A float64 NaN among filter values; encoding/json refuses it.
Float64 == [nan |-> 0 - 999]

\* Whether json.Marshal fails on the value (a NaN anywhere in it).
RECURSIVE jsonMarshalFails(_)
jsonMarshalFails(value) ==
    CASE value.t = "float64" -> value.num = Float64.nan
      [] value.t = "map" -> \E key \in DOMAIN value.map : jsonMarshalFails(value.map[key])
      [] value.t = "slice" -> \E i \in DOMAIN value.seq : jsonMarshalFails(value.seq[i])
      [] OTHER -> FALSE

\* The []byte json.Marshal returns, as the document it spells.
GoJsonBytes(doc) == [t |-> "bytes", doc |-> doc]

\* bindJSONB: like bind, with the value's JSON encoding as the argument.
bindJSONB(c, value) ==
    IF jsonMarshalFails(value) THEN [err |-> ErrInvalidFilter, c |-> c]
    ELSE [err |-> NoError, c |-> bind(c, GoJsonBytes(GoToJson(value)))]

\* strings.ReplaceAll(v, "'", "''") between single quotes.
RECURSIVE doubleQuotes(_)
doubleQuotes(s) ==
    IF s = << >> THEN << >>
    ELSE IF Head(s) = 39 THEN <<39, 39>> \o doubleQuotes(Tail(s))
    ELSE <<Head(s)>> \o doubleQuotes(Tail(s))

singleQuoted(v) == <<39>> \o doubleQuotes(v) \o <<39>>

pathArraySQL(path) == [i \in 1..Len(path) |-> singleQuoted(path[i])]

metadataPathJSONBExpr(metadataExpr, path) == JsonbPathExpr(metadataExpr, pathArraySQL(path))

metadataPathTextExpr(metadataExpr, path) == PathTextExpr(metadataExpr, pathArraySQL(path))

FieldResolution(err, expr, isMetadata, path) ==
    [err |-> err, expr |-> expr, isMetadata |-> isMetadata, path |-> path]

\* filterCompiler.resolveField: the reference is used as given.
resolveField(cfg, ref) ==
    CASE ref.Kind = FieldColumn ->
           IF ref.Name = strEmpty
           THEN FieldResolution(ErrInvalidFilter, ColExpr(strEmpty), FALSE, << >>)
           ELSE IF ref.Name \notin DOMAIN cfg.ColumnExpr
           THEN FieldResolution(ErrInvalidFilter, ColExpr(strEmpty), FALSE, << >>)
           ELSE FieldResolution(NoError, cfg.ColumnExpr[ref.Name], FALSE, << >>)
      [] ref.Kind = FieldMetadata ->
           IF cfg.MetadataExpr = ""
           THEN FieldResolution(ErrInvalidFilter, ColExpr(strEmpty), FALSE, << >>)
           ELSE IF Len(ref.Path) = 0
           THEN FieldResolution(ErrInvalidFilter, ColExpr(strEmpty), FALSE, << >>)
           ELSE FieldResolution(NoError, cfg.MetadataExpr, TRUE, ref.Path)
      [] OTHER -> FieldResolution(ErrInvalidFilter, ColExpr(strEmpty), FALSE, << >>)

compileEqJSONB(f, b, ph) ==
    IF b.err # NoError THEN Compiled(b.err, NoSql, b.c)
    ELSE Compiled(NoError, SqlCmpJsonb(metadataPathJSONBExpr(f.expr, f.path), ph), b.c)

compileEq(cfg, c, node) ==
    LET f == resolveField(cfg, node.Field) IN
    IF f.err # NoError THEN Compiled(f.err, NoSql, c)
    ELSE IF ~f.isMetadata
    THEN Compiled(NoError, SqlCmp(f.expr, "=", c.nextArg), bind(c, node.Value))
    ELSE compileEqJSONB(f, bindJSONB(c, node.Value), c.nextArg)

\* The value loop of compileIn.
RECURSIVE compileInValues(_, _, _, _)
compileInValues(c, isMetadata, values, phs) ==
    IF values = << >> THEN [err |-> NoError, phs |-> phs, c |-> c]
    ELSE IF isMetadata /\ jsonMarshalFails(Head(values))
    THEN [err |-> ErrInvalidFilter, phs |-> phs, c |-> c]
    ELSE compileInValues(
             IF isMetadata THEN bindJSONB(c, Head(values)).c ELSE bind(c, Head(values)),
             isMetadata, Tail(values), Append(phs, c.nextArg))

compileInBound(f, b) ==
    IF b.err # NoError THEN Compiled(b.err, NoSql, b.c)
    ELSE IF ~f.isMetadata THEN Compiled(NoError, SqlIn(f.expr, b.phs), b.c)
    ELSE Compiled(NoError, SqlInJsonb(metadataPathJSONBExpr(f.expr, f.path), b.phs), b.c)

compileIn(cfg, c, node) ==
    IF Len(node.Values) = 0 THEN Compiled(ErrInvalidFilter, NoSql, c)
    ELSE LET f == resolveField(cfg, node.Field) IN
         IF f.err # NoError THEN Compiled(f.err, NoSql, c)
         ELSE compileInBound(f, compileInValues(c, f.isMetadata, node.Values, << >>))

\* compileGt and compileLt differ in the operator only.
compileGtLt(cfg, c, node, op) ==
    LET f == resolveField(cfg, node.Field) IN
    IF f.err # NoError THEN Compiled(f.err, NoSql, c)
    ELSE IF ~f.isMetadata
    THEN Compiled(NoError, SqlCmp(f.expr, op, c.nextArg), bind(c, node.Value))
    ELSE IF toFloat64(node.Value).ok
    THEN Compiled(NoError,
                  SqlCmp(DoublePrecisionExpr(metadataPathTextExpr(f.expr, f.path)),
                         op, c.nextArg),
                  bind(c, GoFloat64(toFloat64(node.Value).n)))
    ELSE Compiled(NoError,
                  SqlCmp(metadataPathTextExpr(f.expr, f.path), op, c.nextArg),
                  bind(c, GoString(Sprint(node.Value))))

compileGt(cfg, c, node) == compileGtLt(cfg, c, node, ">")

compileLt(cfg, c, node) == compileGtLt(cfg, c, node, "<")

compileExists(cfg, c, node) ==
    LET f == resolveField(cfg, node.Field) IN
    IF f.err # NoError THEN Compiled(f.err, NoSql, c)
    ELSE IF ~f.isMetadata THEN Compiled(NoError, SqlIsNotNull(f.expr), c)
    ELSE Compiled(NoError, SqlIsNotNull(metadataPathJSONBExpr(f.expr, f.path)), c)

RECURSIVE compile(_, _, _)
\* The child loop of compileLogical.
RECURSIVE compileChildren(_, _, _, _, _)
compileChildren(cfg, c, op, children, parts) ==
    IF children = << >> THEN Compiled(NoError, SqlLogical(op, parts), c)
    ELSE IF Head(children) = NilFilter THEN Compiled(ErrInvalidFilter, NoSql, c)
    ELSE LET p == compile(cfg, c, Head(children)) IN
         IF p.err # NoError THEN Compiled(p.err, NoSql, p.c)
         ELSE compileChildren(cfg, p.c, op, Tail(children), Append(parts, p.sql))

compileLogical(cfg, c, op, children) ==
    IF Len(children) = 0 THEN Compiled(ErrInvalidFilter, NoSql, c)
    ELSE compileChildren(cfg, c, op, children, << >>)

compile(cfg, c, filter) ==
    CASE filter.op = "Eq" -> compileEq(cfg, c, filter)
      [] filter.op = "In" -> compileIn(cfg, c, filter)
      [] filter.op = "Gt" -> compileGt(cfg, c, filter)
      [] filter.op = "Lt" -> compileLt(cfg, c, filter)
      [] filter.op = "Exists" -> compileExists(cfg, c, filter)
      [] filter.op = "And" -> compileLogical(cfg, c, "AND", filter.Children)
      [] filter.op = "Or" -> compileLogical(cfg, c, "OR", filter.Children)
      [] filter.op = "Not" ->
           IF filter.Child = NilFilter THEN Compiled(ErrInvalidFilter, NoSql, c)
           ELSE LET p == compile(cfg, c, filter.Child) IN
                IF p.err # NoError THEN Compiled(p.err, NoSql, p.c)
                ELSE Compiled(NoError, SqlNot(p.sql), p.c)
      [] OTHER -> Compiled(ErrInvalidFilter, NoSql, c)

compileFilterSQLOut(start, out) ==
    IF out.err # NoError THEN FilterSQL(NoSql, << >>, start, out.err)
    ELSE FilterSQL(out.sql, out.c.args, out.c.nextArg, NoError)

\* CompileFilterSQL: (sql, args, nextArg, err).
CompileFilterSQL(filter, cfg, startArg) ==
    LET start == IF startArg < 1 THEN 1 ELSE startArg IN
    IF filter = NilFilter THEN FilterSQL(NoSql, << >>, start, NoError)
    ELSE compileFilterSQLOut(start, compile(cfg, Compiler(<< >>, start), filter))

(***************************************************************************)
(* The statement text of a compiled predicate, token by token as the       *)
(* compilers' format strings write it: keywords and punctuation, quoted    *)
(* identifiers and literals, and placeholders.                             *)
(***************************************************************************)
Tok(text) == [tok |-> text]
IdentTok(name) == [ident |-> name]
LiteralTok(text) == [literal |-> text]
PlaceholderTok(n) == [placeholder |-> n]

RECURSIVE JoinTokens(_, _)
JoinTokens(parts, separator) ==
    IF parts = << >> THEN << >>
    ELSE IF Len(parts) = 1 THEN Head(parts)
    ELSE Head(parts) \o <<separator>> \o JoinTokens(Tail(parts), separator)

pathTokens(path) ==
    JoinTokens([i \in 1..Len(path) |-> <<LiteralTok(path[i])>>], Tok(", "))

RECURSIVE exprText(_)
exprText(x) ==
    CASE x.e = "col" -> <<IdentTok(x.name)>>
      [] x.e = "JSON_VALUE" ->
           <<Tok("JSON_VALUE("), Tok("[metadata]"), Tok(", "),
             PlaceholderTok(x.path), Tok(")")>>
      [] x.e = "LOWER" -> <<Tok("LOWER(")>> \o exprText(x.arg) \o <<Tok(")")>>
      [] x.e = "TRY_CONVERT" ->
           <<Tok("TRY_CONVERT(float, ")>> \o exprText(x.arg) \o <<Tok(")")>>
      [] x.e = "#>" ->
           <<Tok("("), Tok(x.of), Tok(" #> ARRAY[")>> \o pathTokens(x.path) \o <<Tok("])")>>
      [] x.e = "jsonb_extract_path_text" ->
           <<Tok("jsonb_extract_path_text("), Tok(x.of), Tok(", ")>>
           \o pathTokens(x.path) \o <<Tok(")")>>
      [] x.e = "::double precision" ->
           <<Tok("(")>> \o exprText(x.arg) \o <<Tok(")::double precision")>>

RECURSIVE sqlText(_)
sqlText(sql) ==
    CASE sql.k = "none" -> << >>
      [] sql.k = "cmp" ->
           <<Tok("(")>> \o exprText(sql.lhs)
           \o <<Tok(" "), Tok(sql.cmp), Tok(" "), PlaceholderTok(sql.rhs), Tok(")")>>
      [] sql.k = "cmpjsonb" ->
           <<Tok("(")>> \o exprText(sql.lhs)
           \o <<Tok(" = "), PlaceholderTok(sql.rhs), Tok("::jsonb)")>>
      [] sql.k = "in" ->
           <<Tok("(")>> \o exprText(sql.lhs) \o <<Tok(" IN (")>>
           \o JoinTokens([i \in 1..Len(sql.rhs) |-> <<PlaceholderTok(sql.rhs[i])>>], Tok(", "))
           \o <<Tok("))")>>
      [] sql.k = "injsonb" ->
           <<Tok("(")>> \o exprText(sql.lhs) \o <<Tok(" IN (")>>
           \o JoinTokens([i \in 1..Len(sql.rhs) |->
                             <<PlaceholderTok(sql.rhs[i]), Tok("::jsonb")>>], Tok(", "))
           \o <<Tok("))")>>
      [] sql.k = "isnotnull" ->
           <<Tok("(")>> \o exprText(sql.lhs) \o <<Tok(" IS NOT NULL)")>>
      [] sql.k = "pathexists" ->
           <<Tok("(JSON_PATH_EXISTS("), Tok("[metadata]"), Tok(", "),
             PlaceholderTok(sql.path), Tok(") = 1)")>>
      [] sql.k = "logical" ->
           <<Tok("(")>>
           \o JoinTokens([i \in 1..Len(sql.parts) |-> sqlText(sql.parts[i])],
                         Tok(sql.lop))
           \o <<Tok(")")>>
      [] sql.k = "not" -> <<Tok("(NOT ")>> \o sqlText(sql.part) \o <<Tok(")")>>

\* The placeholders of a statement text, in reading order.
placeholdersOf(text) ==
    LET at == {i \in 1..Len(text) : DOMAIN text[i] = {"placeholder"}}
        nth[n \in 0..Len(text)] ==
            IF n = 0 THEN << >>
            ELSE IF n \in at THEN Append(nth[n - 1], text[n].placeholder)
            ELSE nth[n - 1]
    IN  nth[Len(text)]

(***************************************************************************)
(* State                                                                   *)
(***************************************************************************)
VARIABLES
    \* One filter against one stored row (SpecFilter).
    fltFilter,      \* the filter AST handed to Count / SearchByVector
    fltRow,         \* the stored row
    fltCompiled,    \* what compileMSSQLFilterSQL returned
    fltSelected,    \* whether WHERE <compiled predicate> selects the row
    fltMatched,     \* what matchesFilter returned on the decoded row
    fltPc,
    \* The streaming search's top-K heap (SpecHeap).
    hpCandidates,   \* every candidate the stream will deliver
    hpArrival,      \* the candidates still to arrive, in arrival order
    hpTopK,
    hpHeap,         \* topKHeap
    hpResults,      \* the returned slice
    hpPc,
    \* One Count or SearchByVector call on a populated collection (SpecSearch).
    srCollection,   \* [backend, dimension, metric]
    srTable,        \* the stored rows
    srRequest,      \* the call and its arguments
    srResponse,     \* what the call returned
    srPc,
    \* A session of Insert / Upsert / Get / SearchByVector calls on one
    \* collection (SpecWrite, SpecBatch).
    wrCollection,   \* [backend, dimension, metric]
    wrTable,        \* the stored rows
    wrHistory,      \* the calls that have returned, oldest first
    wrPc,
    \* Two concurrent MSSQL Upsert calls, statement by statement (SpecUpsert).
    upTable,        \* the rows, uncommitted changes included
    upLocks,        \* the locks transactions hold until they end
    upWriters,      \* per call: its record, position, @@ROWCOUNT, branch, error
    \* EnsureCollection / EnsureIndexes calls on one database (SpecEnsure,
    \* SpecEnsureRace).
    ecStore,        \* [backend, strictByDefault]
    ecDb,           \* the tables, the registry rows, the indexes
    ecCalls,        \* the EnsureCollection calls in flight, per caller
    ecHistory,      \* the calls that have returned, oldest first
    \* The two filter compilers and the evaluator on one filter and on a
    \* second filter related to it (SpecCompile).
    cpFilter,       \* the filter
    cpOther,        \* the related filter
    cpStart,        \* the start offset handed to the compilers
    cpRecord,       \* the record handed to the evaluator
    cpFull,         \* what CompileFilterSQL returned for each of the two
    cpRestricted,   \* what compileMSSQLFilterSQL returned for each of the two
    cpMatched       \* what matchesFilter returned for each of the two

filterVars == <<fltFilter, fltRow, fltCompiled, fltSelected, fltMatched, fltPc>>
heapVars == <<hpCandidates, hpArrival, hpTopK, hpHeap, hpResults, hpPc>>

searchVars == <<srCollection, srTable, srRequest, srResponse, srPc>>

writeVars == <<wrCollection, wrTable, wrHistory, wrPc>>

upsertVars == <<upTable, upLocks, upWriters>>

ensureVars == <<ecStore, ecDb, ecCalls, ecHistory>>

compileVars == <<cpFilter, cpOther, cpStart, cpRecord, cpFull, cpRestricted, cpMatched>>

vars == <<filterVars, heapVars, searchVars, writeVars, upsertVars, ensureVars,
         compileVars>>

\* What an action of one group leaves alone.
otherThanFilter ==
    <<heapVars, searchVars, writeVars, upsertVars, ensureVars, compileVars>>
otherThanHeap ==
    <<filterVars, searchVars, writeVars, upsertVars, ensureVars, compileVars>>
otherThanSearch ==
    <<filterVars, heapVars, writeVars, upsertVars, ensureVars, compileVars>>
otherThanWrite ==
    <<filterVars, heapVars, searchVars, upsertVars, ensureVars, compileVars>>
otherThanUpsert ==
    <<filterVars, heapVars, searchVars, writeVars, ensureVars, compileVars>>
otherThanEnsure ==
    <<filterVars, heapVars, searchVars, writeVars, upsertVars, compileVars>>
otherThanCompile ==
    <<filterVars, heapVars, searchVars, writeVars, upsertVars, ensureVars>>

(***************************************************************************)
(* SpecFilter: the restricted compiler and the evaluator on the same       *)
(* filter and the same stored row.                                         *)
(***************************************************************************)
FilterFields ==
    {Column(strId), Column(strContent), Column(strBogus),
     Metadata(<<strK>>), Metadata(<<strK, strN>>)}

FilterValues ==
    {GoString(strA), GoString(strTen), GoString(strTrue),
     GoInt(10), GoFloat64(5), GoBool(TRUE), GoNil}

FilterValueLists ==
    {<<GoString(strA), GoString(strTen)>>, <<GoInt(10), GoBool(TRUE)>>, << >>}

FilterAtoms ==
    {Eq(f, v) : f \in FilterFields, v \in FilterValues}
    \cup {Gt(f, v) : f \in FilterFields, v \in FilterValues}
    \cup {Lt(f, v) : f \in FilterFields, v \in FilterValues}
    \cup {In(f, vs) : f \in FilterFields, vs \in FilterValueLists}
    \cup {Exists(f) : f \in FilterFields}

\* The atoms that logical groups are built from.
GroupAtoms ==
    {Eq(Metadata(<<strK>>), GoString(strA)), Eq(Metadata(<<strK>>), GoInt(10)),
     Gt(Metadata(<<strK>>), GoFloat64(5)), Lt(Column(strContent), GoString(strB)),
     Eq(Column(strId), GoString(strA)), Eq(Column(strId), GoInt(10)),
     Exists(Metadata(<<strK, strN>>)), Exists(Column(strContent))}

FilterSet ==
    FilterAtoms
    \cup {Not(f) : f \in FilterAtoms}
    \cup {And(<<f, g>>) : f \in GroupAtoms, g \in GroupAtoms}
    \cup {Or(<<f, g>>) : f \in GroupAtoms, g \in GroupAtoms}
    \cup {Not(And(<<f, g>>)) : f \in GroupAtoms, g \in GroupAtoms}
    \cup {And(<< >>), Or(<< >>), Not(NilFilter), And(<<NilFilter>>)}

\* The JSON values stored under the key "k".
StoredJsonValues ==
    {JNull, JString(strA), JString(strTen), JString(strTrue), JString(strUpperTrue),
     JNumber(10), JNumber(5), JBool(TRUE),
     JObject([key \in {strN} |-> JNumber(10)]), JObject([key \in {strN} |-> JNull])}

StoredMetadata ==
    {JObject(EmptyMap)} \cup {JObject([key \in {strK} |-> j]) : j \in StoredJsonValues}

StoredRow(id, vector, metadata, content) ==
    [id |-> id, vector |-> vector, metadata |-> metadata, content |-> content]

FilterRows ==
    {StoredRow(strA, JArray(<<JNumber(1), JNumber(0)>>), m, c) :
        m \in StoredMetadata, c \in {SqlNull, NVarchar(strA), NVarchar(strTen)}}

\* streamRecords' decoding of a row (the vector is not read for a count).
DecodeContent(content) == IF content = SqlNull THEN GoNil ELSE GoString(content.str)

StreamedRecord(row) ==
    [ID |-> row.id, Metadata |-> parseMetadataJSON(row.metadata),
     Content |-> DecodeContent(row.content)]

NotCompiled == FilterSQL(NoSql, << >>, 0, "pending")
NotMatched == Match(FALSE, "pending")

NoRequest == [op |-> "none"]
NoResponse == [err |-> "pending"]

SearchIdle ==
    /\ srCollection = [backend |-> "none", dimension |-> 0, metric |-> ""]
    /\ srTable = {}
    /\ srRequest = NoRequest
    /\ srResponse = NoResponse
    /\ srPc = "idle"

HeapIdle ==
    /\ hpCandidates = {}
    /\ hpArrival = << >>
    /\ hpTopK = 0
    /\ hpHeap = << >>
    /\ hpResults = << >>
    /\ hpPc = "idle"

CompileIdle ==
    /\ cpFilter = NilFilter
    /\ cpOther = NilFilter
    /\ cpStart = 1
    /\ cpRecord = [ID |-> strA]
    /\ cpFull = << >>
    /\ cpRestricted = << >>
    /\ cpMatched = << >>

EnsureIdle ==
    /\ ecStore = [backend |-> "none", strictByDefault |-> TRUE]
    /\ ecDb = [tables |-> {}, registry |-> {}, indexes |-> {}, base |-> FALSE]
    /\ ecCalls = << >>
    /\ ecHistory = << >>

UpsertIdle ==
    /\ upTable = {}
    /\ upLocks = {}
    /\ upWriters = << >>

WriteIdle ==
    /\ wrCollection = [backend |-> "none", dimension |-> 0, metric |-> ""]
    /\ wrTable = {}
    /\ wrHistory = << >>
    /\ wrPc = "idle"

FilterIdle ==
    /\ fltFilter = NilFilter
    /\ fltRow = StoredRow(strA, JArray(<< >>), JObject(EmptyMap), SqlNull)
    /\ fltCompiled = NotCompiled
    /\ fltSelected = FALSE
    /\ fltMatched = NotMatched
    /\ fltPc = "idle"

InitFilter ==
    /\ fltFilter \in FilterSet
    /\ fltRow \in FilterRows
    /\ fltCompiled = NotCompiled
    /\ fltSelected = FALSE
    /\ fltMatched = NotMatched
    /\ fltPc = "start"
    /\ HeapIdle
    /\ SearchIdle
    /\ WriteIdle
    /\ UpsertIdle
    /\ EnsureIdle
    /\ CompileIdle

\* Count compiles the filter first (compileMSSQLFilterSQL(filter, 1)).
FilterCompile ==
    /\ fltPc = "start"
    /\ fltCompiled' = compileMSSQLFilterSQL(fltFilter, 1)
    /\ fltPc' = "compiled"
    /\ UNCHANGED <<fltFilter, fltRow, fltSelected, fltMatched>>
    /\ UNCHANGED otherThanFilter

\* An accepted filter runs as SELECT ... WHERE <predicate>.
FilterExecuteSQL ==
    /\ fltPc = "compiled"
    /\ fltCompiled.err = NoError
    /\ fltSelected' = SqlSelects(fltCompiled.sql, fltCompiled.args, 1, fltRow)
    /\ fltPc' = "executed"
    /\ UNCHANGED <<fltFilter, fltRow, fltCompiled, fltMatched>>
    /\ UNCHANGED otherThanFilter

\* The streaming path's callback: matchesFilter on the decoded row.  It runs
\* for a refused filter, and for an accepted one to compare the two.
FilterEvaluate ==
    /\ \/ fltPc = "executed"
       \/ fltPc = "compiled" /\ fltCompiled.err # NoError
    /\ fltMatched' = matchesFilter(fltFilter, StreamedRecord(fltRow))
    /\ fltPc' = "done"
    /\ UNCHANGED <<fltFilter, fltRow, fltCompiled, fltSelected>>
    /\ UNCHANGED otherThanFilter

NextFilter == FilterCompile \/ FilterExecuteSQL \/ FilterEvaluate

SpecFilter == InitFilter /\ [][NextFilter]_vars

\* C1: whenever the restricted compiler accepts a filter, the compiled
\* predicate selects a stored row exactly when matchesFilter matches it.
C1_PushdownAgreesWithEvaluator ==
    (fltPc = "done" /\ fltCompiled.err = NoError)
        => (fltMatched.err = NoError /\ fltSelected = fltMatched.ok)

\* C1 (failing input): Eq(Metadata("k"), "10") on stored metadata {"k": 10} is
\* accepted by the compiler, selected by the SQL and rejected by matchesFilter.
C1_StringFilterOnStoredNumber ==
    /\ fltPc = "done"
    /\ fltFilter = Eq(Metadata(<<strK>>), GoString(strTen))
    /\ fltRow.metadata = JObject([key \in {strK} |-> JNumber(10)])
    /\ fltCompiled.err = NoError
    /\ fltSelected = TRUE
    /\ fltMatched = Match(FALSE, NoError)

(***************************************************************************)
(* The streaming search's top-K selection: searchResultMaxHeap driven by   *)
(* container/heap, then the drain and the sort.  A SearchResult is         *)
(* [ID |-> string, Distance |-> number]; slices are 0-indexed as in Go.    *)
(***************************************************************************)
SearchResult(id, distance) == [ID |-> id, Distance |-> distance]

\* A better-than order that forgets the ID tie-break.
isBetterResultDistanceOnly(left, right) == left.Distance < right.Distance

isBetterResult(left, right) ==
    IF left.Distance = right.Distance
    THEN StringLess(left.ID, right.ID)
    ELSE left.Distance < right.Distance

isWorseResult(left, right) ==
    IF left.Distance = right.Distance
    THEN StringLess(right.ID, left.ID)
    ELSE left.Distance > right.Distance

At(h, i) == h[i + 1]

\* searchResultMaxHeap.Less and .Swap
heapLess(h, i, j) == isWorseResult(At(h, i), At(h, j))

heapSwap(h, i, j) ==
    [k \in 1..Len(h) |-> IF k = i + 1 THEN At(h, j) ELSE IF k = j + 1 THEN At(h, i) ELSE h[k]]

\* container/heap up(h, j); Go's (0 - 1) / 2 is 0, so the root stops the loop.
RECURSIVE heapUp(_, _)
heapUp(h, j) ==
    LET i == (j - 1) \div 2 IN
    IF j = 0 \/ i = j \/ ~heapLess(h, j, i) THEN h
    ELSE heapUp(heapSwap(h, i, j), i)

\* container/heap down(h, i0, n), without its return value
RECURSIVE heapDown(_, _, _)
heapDown(h, i, n) ==
    LET j1 == 2 * i + 1 IN
    IF j1 >= n THEN h
    ELSE LET j2 == j1 + 1
             j == IF j2 < n /\ heapLess(h, j2, j1) THEN j2 ELSE j1
         IN IF ~heapLess(h, j, i) THEN h
            ELSE heapDown(heapSwap(h, i, j), j, n)

\* heap.Push: searchResultMaxHeap.Push appends, then up from the last index.
heapPush(h, x) == heapUp(Append(h, x), Len(h))

\* heap.Pop: swap root and last, down over the first n-1, then
\* searchResultMaxHeap.Pop takes the last element off.
heapPop(h) ==
    LET n == Len(h) - 1
        sifted == heapDown(heapSwap(h, 0, n), 0, n)
    IN [item |-> At(sifted, n), heap |-> SubSeq(sifted, 1, n)]

\* The callback's last lines: what happens to topKHeap when a candidate
\* that passed the filter and the threshold is offered.
offerCandidate(h, topK, candidate) ==
    IF Len(h) < topK THEN heapPush(h, candidate)
    ELSE IF isBetterResult(candidate, At(h, 0))
         THEN heapPush(heapPop(h).heap, candidate)
         ELSE h

\* for topKHeap.Len() > 0 { results = append(results, heap.Pop(...)) }
RECURSIVE drainHeap(_)
drainHeap(h) ==
    IF Len(h) = 0 THEN << >>
    ELSE LET popped == heapPop(h) IN <<popped.item>> \o drainHeap(popped.heap)

\* sort.Slice(results, isBetterResult): for fewer than 12 elements the
\* library runs an insertion sort, moving element i left while it is better
\* than its left neighbour.
RECURSIVE sinkLeft(_, _)
sinkLeft(results, j) ==
    IF j > 0 /\ isBetterResult(At(results, j), At(results, j - 1))
    THEN sinkLeft(heapSwap(results, j, j - 1), j - 1)
    ELSE results

RECURSIVE insertionSortFrom(_, _)
insertionSortFrom(results, i) ==
    IF i >= Len(results) THEN results
    ELSE insertionSortFrom(sinkLeft(results, i), i + 1)

sortResults(results) == insertionSortFrom(results, 1)

(***************************************************************************)
(* Vectors and distances.  A []float32 is a sequence of small non-negative *)
(* integers (all exactly representable); a float64 result is kept in       *)
(* thousandths, rounded down, which keeps equal distances equal and        *)
(* distinct distances distinct over the vectors the specifications draw.   *)
(***************************************************************************)
Fixed == [one |-> 1000]

ToFixed(n) == n * Fixed.one
FixedMul(a, b) == (a * b) \div Fixed.one
FixedDiv(a, b) == (a * Fixed.one) \div b

RECURSIVE isqrtBetween(_, _, _)
isqrtBetween(n, lo, hi) ==
    IF lo >= hi THEN lo
    ELSE LET mid == (lo + hi + 1) \div 2 IN
         IF mid * mid <= n THEN isqrtBetween(n, mid, hi) ELSE isqrtBetween(n, lo, mid - 1)

FixedSqrt(a) == isqrtBetween(a * Fixed.one, 0, a + Fixed.one)

\* The loops "for i := range left { sum += ... }".
RECURSIVE SumProducts(_, _)
SumProducts(left, right) ==
    IF left = << >> \/ right = << >> THEN 0
    ELSE Head(left) * Head(right) + SumProducts(Tail(left), Tail(right))

RECURSIVE SumSquaredDiffs(_, _)
SumSquaredDiffs(left, right) ==
    IF left = << >> \/ right = << >> THEN 0
    ELSE (Head(left) - Head(right)) * (Head(left) - Head(right))
         + SumSquaredDiffs(Tail(left), Tail(right))

DistanceCosine == "cosine"
DistanceL2 == "l2"
DistanceInnerProduct == "inner_product"

defaultMetric(metric) == IF metric = "" THEN DistanceCosine ELSE metric

\* A float32 component is a small non-negative integer, or this code for NaN.
Float32 == [nan |-> 0 - 1]

HasNaN(vector) == \E i \in DOMAIN vector : vector[i] = Float32.nan

errUnsupportedValue == "json: unsupported value"

\* vectorJSON / parseVectorJSON: the vector column holds a JSON array;
\* json.Marshal refuses NaN.
vectorJSONError(vector) == IF HasNaN(vector) THEN errUnsupportedValue ELSE NoError

vectorJSON(vector) == JArray([i \in 1..Len(vector) |-> JNumber(vector[i])])

parseVectorJSON(raw) ==
    IF raw.j = "null" THEN [err |-> NoError, vector |-> << >>]
    ELSE IF raw.j = "array" /\ \A i \in DOMAIN raw.seq : raw.seq[i].j = "number"
         THEN [err |-> NoError, vector |-> [i \in DOMAIN raw.seq |-> raw.seq[i].num]]
         ELSE [err |-> "json: cannot unmarshal", vector |-> << >>]

dot(left, right) == ToFixed(SumProducts(left, right))

norm(vector) == FixedSqrt(ToFixed(SumProducts(vector, vector)))

cosineDistance(left, right) ==
    LET leftNorm == norm(left)
        rightNorm == norm(right)
    IN IF leftNorm = 0 \/ rightNorm = 0 THEN ToFixed(1)
       ELSE ToFixed(1) - FixedDiv(dot(left, right), FixedMul(leftNorm, rightNorm))

l2Distance(left, right) == FixedSqrt(ToFixed(SumSquaredDiffs(left, right)))

distanceBetween(metric, query, candidate) ==
    IF Len(query) # Len(candidate) THEN [err |-> ErrDimensionMismatch, distance |-> 0]
    ELSE CASE metric = DistanceCosine ->
                [err |-> NoError, distance |-> cosineDistance(query, candidate)]
           [] metric = DistanceL2 ->
                [err |-> NoError, distance |-> l2Distance(query, candidate)]
           [] metric = DistanceInnerProduct ->
                [err |-> NoError, distance |-> 0 - dot(query, candidate)]
           [] OTHER -> [err |-> ErrSchemaMismatch, distance |-> 0]

validateVectorDimensionShortOnly(dimension, vector) ==
    IF Len(vector) < dimension THEN ErrDimensionMismatch ELSE NoError

validateVectorDimension(dimension, vector) ==
    IF Len(vector) # dimension THEN ErrDimensionMismatch ELSE NoError

(***************************************************************************)
(* MSSQL Count and SearchByVector.  A table is a set of rows; a scan with  *)
(* no ORDER BY delivers them in an order the engine picks.  A collection   *)
(* is [backend, dimension, metric]; search options are [Filter, Threshold] *)
(* with Threshold = [set |-> BOOLEAN, value |-> thousandths].              *)
(***************************************************************************)
JsonText(doc) == [t |-> "jsontext", doc |-> doc]

NoThreshold == [set |-> FALSE, value |-> 0]
Threshold(value) == [set |-> TRUE, value |-> value]

SearchOptions(filter, threshold) == [Filter |-> filter, Threshold |-> threshold]

Response(results, count, err, compileErr, ranSQL, ranStreaming) ==
    [results |-> results, count |-> count, err |-> err, compileErr |-> compileErr,
     ranSQL |-> ranSQL, ranStreaming |-> ranStreaming]

errTopK == "topK must be > 0"

\* streamRecords' decoding of one row.
decodeRow(row, includeVector) ==
    LET parsed == IF includeVector THEN parseVectorJSON(row.vector)
                  ELSE [err |-> NoError, vector |-> << >>]
    IN [err |-> parsed.err,
        record |-> [ID |-> row.id, Vector |-> parsed.vector,
                    Metadata |-> parseMetadataJSON(row.metadata),
                    Content |-> DecodeContent(row.content)]]

\* Count's streaming fallback over the rows in scan order; countRow is the
\* callback once matchesFilter has answered.
RECURSIVE streamCount(_, _, _)
RECURSIVE countRow(_, _, _, _)
streamCount(scan, filter, count) ==
    IF scan = << >> THEN [err |-> NoError, count |-> count]
    ELSE countRow(scan, filter, count,
                  matchesFilter(filter, decodeRow(Head(scan), FALSE).record))

countRow(scan, filter, count, matched) ==
    IF matched.err # NoError THEN [err |-> matched.err, count |-> 0]
    ELSE streamCount(Tail(scan), filter, IF matched.ok THEN count + 1 ELSE count)

\* Count from the point where the streaming path has returned.
countStreamed(compiled, streamed) ==
    Response(<< >>, streamed.count, streamed.err, compiled.err, FALSE, TRUE)

\* Count from the point where compileMSSQLFilterSQL(filter, 1) has returned.
countCompiled(table, scan, filter, compiled) ==
    IF compiled.err = NoError
    THEN Response(<< >>,
                  Cardinality({row \in table : SqlSelects(compiled.sql, compiled.args, 1, row)}),
                  NoError, NoError, TRUE, FALSE)
    ELSE IF compiled.err # errFilterPushdownUnsupported
    THEN Response(<< >>, 0, compiled.err, compiled.err, FALSE, FALSE)
    ELSE countStreamed(compiled, streamCount(scan, filter, 0))

mssqlCount(table, scan, filter) ==
    IF filter = NilFilter
    THEN Response(<< >>, Cardinality(table), NoError, NoError, TRUE, FALSE)
    ELSE countCompiled(table, scan, filter, compileMSSQLFilterSQL(filter, 1))

\* searchDistanceExpr: whether the metric has a SQL distance expression.
searchDistanceExpr(metric) ==
    IF metric \in {DistanceCosine, DistanceL2, DistanceInnerProduct} THEN NoError
    ELSE ErrSchemaMismatch

\* buildSearchSQLPlan: @p1 the query vector, @p2 the dimension, the filter's
\* placeholders from @p3, then the threshold and the row limit.
planArgs(collection, topK, opts, compiled, withFilter) ==
    LET withThreshold == IF opts.Threshold.set
                         THEN Append(withFilter, GoFloat64(opts.Threshold.value))
                         ELSE withFilter
    IN [err |-> NoError, compileErr |-> NoError,
        metric |-> defaultMetric(collection.metric),
        filterSQL |-> compiled.sql,
        thresholdArg |-> IF opts.Threshold.set THEN Len(withThreshold) ELSE 0,
        limitArg |-> Len(withThreshold) + 1,
        args |-> Append(withThreshold, GoInt(topK))]

planCompiled(collection, vector, topK, opts, compiled) ==
    IF compiled.err # NoError THEN [err |-> compiled.err, compileErr |-> compiled.err]
    ELSE planArgs(collection, topK, opts, compiled,
                  <<JsonText(vectorJSON(vector)), GoInt(collection.dimension)>> \o compiled.args)

buildSearchSQLPlan(collection, vector, topK, opts) ==
    IF vectorJSONError(vector) # NoError
    THEN [err |-> errUnsupportedValue, compileErr |-> NoError]
    ELSE IF searchDistanceExpr(defaultMetric(collection.metric)) # NoError
    THEN [err |-> ErrSchemaMismatch, compileErr |-> NoError]
    ELSE planCompiled(collection, vector, topK, opts,
                      IF opts.Filter = NilFilter THEN FilterSQL(NoSql, << >>, 3, NoError)
                      ELSE compileMSSQLFilterSQL(opts.Filter, 3))

\* The plan's distance column over OPENJSON of the stored and the query vector.
OPENJSON(doc) == [i \in DOMAIN doc.seq |-> doc.seq[i].num]

sqlDistance(metric, stored, query) ==
    LET tv == OPENJSON(stored)
        qv == OPENJSON(query)
        matched == IF Len(tv) < Len(qv) THEN Len(tv) ELSE Len(qv)
        joinedTv == SubSeq(tv, 1, matched)
        joinedQv == SubSeq(qv, 1, matched)
        candidate_norm_sq == ToFixed(SumProducts(tv, tv))
        query_norm_sq == ToFixed(SumProducts(joinedQv, joinedQv))
        dot_product == ToFixed(SumProducts(joinedTv, joinedQv))
        sum_sq_diff == ToFixed(SumSquaredDiffs(joinedTv, joinedQv))
    IN [candidate_dim |-> Len(tv), matched_dim |-> matched,
        distance |->
            CASE metric = DistanceCosine ->
                   IF query_norm_sq = 0 \/ candidate_norm_sq = 0 THEN ToFixed(1)
                   ELSE ToFixed(1) - FixedDiv(dot_product,
                                              FixedMul(FixedSqrt(query_norm_sq),
                                                       FixedSqrt(candidate_norm_sq)))
              [] metric = DistanceL2 -> FixedSqrt(sum_sq_diff)
              [] metric = DistanceInnerProduct -> 0 - dot_product]

\* ORDER BY distance ASC, id ASC over a set of (id, distance) rows.
RECURSIVE orderByDistanceThenId(_)
orderByDistanceThenId(ranked) ==
    IF ranked = {} THEN << >>
    ELSE LET first == CHOOSE r \in ranked : \A other \in ranked \ {r} :
                          \/ r.Distance < other.Distance
                          \/ r.Distance = other.Distance /\ StringLess(r.ID, other.ID)
         IN <<first>> \o orderByDistanceThenId(ranked \ {first})

FetchFirst(rows, n) == SubSeq(rows, 1, IF n < Len(rows) THEN n ELSE Len(rows))

executeSearchSQLPlan(plan, table) ==
    LET dimension == plan.args[2].num
        stats(row) == sqlDistance(plan.metric, row.vector, plan.args[1].doc)
        inner == {row \in table :
                    /\ stats(row).candidate_dim = dimension
                    /\ stats(row).matched_dim = dimension
                    /\ \/ plan.filterSQL = NoSql
                       \/ SqlSelects(plan.filterSQL, plan.args, 1, row)}
        ranked == {SearchResult(row.id, stats(row).distance) : row \in inner}
        kept == IF plan.thresholdArg = 0 THEN ranked
                ELSE {r \in ranked : r.Distance <= plan.args[plan.thresholdArg].num}
    IN FetchFirst(orderByDistanceThenId(kept), plan.args[plan.limitArg].num)

\* searchByVectorStreaming: the callback on each row in scan order (split
\* where it has decoded the row, run the filter and measured the distance),
\* then the drain and the sort.
RECURSIVE streamSearch(_, _, _, _, _, _)
RECURSIVE searchDecoded(_, _, _, _, _, _, _)
RECURSIVE searchMatched(_, _, _, _, _, _, _, _)
RECURSIVE searchMeasured(_, _, _, _, _, _, _, _)
streamSearch(collection, scan, vector, topK, opts, topKHeap) ==
    IF scan = << >> THEN [err |-> NoError, heap |-> topKHeap]
    ELSE searchDecoded(collection, scan, vector, topK, opts, topKHeap,
                       decodeRow(Head(scan), TRUE))

searchDecoded(collection, scan, vector, topK, opts, topKHeap, decoded) ==
    IF decoded.err # NoError THEN [err |-> decoded.err, heap |-> << >>]
    ELSE IF validateVectorDimension(collection.dimension, decoded.record.Vector) # NoError
    THEN [err |-> ErrDimensionMismatch, heap |-> << >>]
    ELSE searchMatched(collection, scan, vector, topK, opts, topKHeap, decoded.record,
                       matchesFilter(opts.Filter, decoded.record))

searchMatched(collection, scan, vector, topK, opts, topKHeap, record, matched) ==
    IF matched.err # NoError THEN [err |-> matched.err, heap |-> << >>]
    ELSE IF ~matched.ok
    THEN streamSearch(collection, Tail(scan), vector, topK, opts, topKHeap)
    ELSE searchMeasured(collection, scan, vector, topK, opts, topKHeap, record,
                        distanceBetween(defaultMetric(collection.metric), vector, record.Vector))

searchMeasured(collection, scan, vector, topK, opts, topKHeap, record, measured) ==
    IF measured.err # NoError THEN [err |-> measured.err, heap |-> << >>]
    ELSE IF opts.Threshold.set /\ measured.distance > opts.Threshold.value
    THEN streamSearch(collection, Tail(scan), vector, topK, opts, topKHeap)
    ELSE streamSearch(collection, Tail(scan), vector, topK, opts,
                      offerCandidate(topKHeap, topK, SearchResult(record.ID, measured.distance)))

drainAndSort(streamed) ==
    IF streamed.err # NoError THEN [err |-> streamed.err, results |-> << >>]
    ELSE [err |-> NoError, results |-> sortResults(drainHeap(streamed.heap))]

searchByVectorStreaming(collection, scan, vector, topK, opts) ==
    drainAndSort(streamSearch(collection, scan, vector, topK, opts, << >>))

\* SearchByVector from the point where the streaming path has returned.
searchStreamed(plan, streamed) ==
    Response(streamed.results, 0, streamed.err, plan.compileErr, FALSE, TRUE)

\* A SearchByVector that surfaces every planning error, the pushdown signal
\* included, instead of falling back.
searchPlannedNoFallback(collection, table, scan, vector, topK, opts, plan) ==
    IF plan.err = NoError
    THEN Response(executeSearchSQLPlan(plan, table), 0, NoError, NoError, TRUE, FALSE)
    ELSE Response(<< >>, 0, plan.err, plan.compileErr, FALSE, FALSE)

\* SearchByVector from the point where buildSearchSQLPlan has returned.
searchPlanned(collection, table, scan, vector, topK, opts, plan) ==
    IF plan.err = NoError
    THEN Response(executeSearchSQLPlan(plan, table), 0, NoError, NoError, TRUE, FALSE)
    ELSE IF plan.err # errFilterPushdownUnsupported
    THEN Response(<< >>, 0, plan.err, plan.compileErr, FALSE, FALSE)
    ELSE searchStreamed(plan, searchByVectorStreaming(collection, scan, vector, topK, opts))

mssqlSearchByVector(collection, table, scan, vector, topK, opts) ==
    IF topK <= 0 THEN Response(<< >>, 0, errTopK, NoError, FALSE, FALSE)
    ELSE IF validateVectorDimension(collection.dimension, vector) # NoError
    THEN Response(<< >>, 0, ErrDimensionMismatch, NoError, FALSE, FALSE)
    ELSE searchPlanned(collection, table, scan, vector, topK, opts,
                       buildSearchSQLPlan(collection, vector, topK, opts))

(***************************************************************************)
(* Postgres SearchByVector: one native statement, ORDER BY distance ASC    *)
(* LIMIT topK.  The vector column is vector(dimension), so every stored    *)
(* vector has the collection's dimension.  The filter branch               *)
(* (vectordata.CompileFilterSQL) is taken only for a non-nil filter.       *)
(***************************************************************************)
metricOperator(metric) ==
    CASE metric = DistanceCosine -> [err |-> NoError, operator |-> "<=>"]
      [] metric = DistanceL2 -> [err |-> NoError, operator |-> "<->"]
      [] metric = DistanceInnerProduct -> [err |-> NoError, operator |-> "<#>"]
      [] OTHER -> [err |-> ErrSchemaMismatch, operator |-> ""]

\* pgvector's distance operators.
pgDistance(operator, stored, query) ==
    CASE operator = "<=>" -> ToFixed(1) - FixedDiv(dot(stored, query),
                                                   FixedMul(norm(stored), norm(query)))
      [] operator = "<->" -> l2Distance(stored, query)
      [] operator = "<#>" -> 0 - dot(stored, query)

buildSearchPlan(collection, vector, topK, opts) ==
    LET resolved == metricOperator(defaultMetric(collection.metric))
        compiled == CompileFilterSQL(opts.Filter, filterConfig, 2)
    IN
    IF topK <= 0 THEN [err |-> errTopK]
    ELSE IF validateVectorDimension(collection.dimension, vector) # NoError
    THEN [err |-> ErrDimensionMismatch]
    ELSE IF resolved.err # NoError THEN [err |-> resolved.err]
    ELSE IF opts.Filter # NilFilter /\ compiled.err # NoError THEN [err |-> compiled.err]
    ELSE [err |-> NoError, operator |-> resolved.operator, vector |-> vector,
          threshold |-> opts.Threshold, limit |-> topK,
          where |-> IF opts.Filter = NilFilter THEN NoSql ELSE compiled.sql]

\* The rows the compiled filter keeps.  Without a filter the statement has
\* no such predicate and every row is kept; how the engine evaluates a
\* compiled predicate is outside this code, so any selection of rows is
\* allowed for.
pgWhereSelections(where, table) ==
    IF where = NoSql THEN {table} ELSE SUBSET table

\* A WHERE whose threshold predicate is distance < threshold.
pgCandidatesStrict(plan, table) ==
    LET ranked == {SearchResult(row.id, pgDistance(plan.operator, row.vector, plan.vector)) :
                     row \in table}
    IN IF plan.threshold.set THEN {r \in ranked : r.Distance < plan.threshold.value}
       ELSE ranked

\* The rows the statement's WHERE keeps, with their distance.
pgCandidates(plan, table) ==
    LET ranked == {SearchResult(row.id, pgDistance(plan.operator, row.vector, plan.vector)) :
                     row \in table}
    IN IF plan.threshold.set THEN {r \in ranked : r.Distance <= plan.threshold.value}
       ELSE ranked

\* ORDER BY distance ASC: every order of the rows with non-decreasing
\* distance is one the engine may produce.
orderByDistance(ranked) ==
    {order \in [1..Cardinality(ranked) -> ranked] :
        /\ \A r \in ranked : \E i \in DOMAIN order : order[i] = r
        /\ \A i, j \in DOMAIN order : i < j => order[i].Distance <= order[j].Distance}

\* Every outcome SearchByVector can have on this table.
postgresSearchByVector(collection, table, vector, topK, opts) ==
    LET plan == buildSearchPlan(collection, vector, topK, opts) IN
    IF plan.err # NoError THEN {Response(<< >>, 0, plan.err, NoError, FALSE, FALSE)}
    ELSE {Response(FetchFirst(order, plan.limit), 0, NoError, NoError, TRUE, FALSE) :
            order \in UNION {orderByDistance(pgCandidates(plan, kept)) :
                                kept \in pgWhereSelections(plan.where, table)}}

\* PostgresCollection.Count, from the point where CompileFilterSQL(filter,
\* cfg, 1) has returned: every outcome it can have on this table.
postgresCountCompiled(table, compiled) ==
    IF compiled.err # NoError
    THEN {Response(<< >>, 0, compiled.err, compiled.err, FALSE, FALSE)}
    ELSE {Response(<< >>, Cardinality(kept), NoError, NoError, TRUE, FALSE) :
            kept \in pgWhereSelections(compiled.sql, table)}

postgresCount(table, filter) ==
    postgresCountCompiled(table, CompileFilterSQL(filter, filterConfig, 1))

(***************************************************************************)
(* The Postgres vector codec: vectorLiteral writes "[1,0]", the column's   *)
(* input function reads it, ::text writes it back, parseVectorText reads.  *)
(***************************************************************************)
strNaN == <<78, 97, 78>>
Punct == [comma |-> 44]

FormatFloat32(n) == IF n = Float32.nan THEN strNaN ELSE FormatInt(n)

RECURSIVE JoinComma(_)
JoinComma(parts) ==
    IF parts = << >> THEN << >>
    ELSE IF Len(parts) = 1 THEN Head(parts)
    ELSE Head(parts) \o <<Punct.comma>> \o JoinComma(Tail(parts))

vectorLiteral(v) ==
    <<Byte.lbracket>> \o JoinComma([i \in 1..Len(v) |-> FormatFloat32(v[i])]) \o <<Byte.rbracket>>

\* strings.Split(body, ",")
RECURSIVE SplitComma(_, _)
SplitComma(text, current) ==
    IF text = << >> THEN <<current>>
    ELSE IF Head(text) = Punct.comma THEN <<current>> \o SplitComma(Tail(text), << >>)
    ELSE SplitComma(Tail(text), Append(current, Head(text)))

\* strconv.ParseFloat on the texts the codec produces.
ParseFloat32(text) ==
    IF IsDigits(text) THEN [err |-> NoError, f |-> ParseNat(text)]
    ELSE IF text = strNaN THEN [err |-> NoError, f |-> Float32.nan]
    ELSE [err |-> "strconv.ParseFloat: invalid syntax", f |-> 0]

parseVectorText(text) ==
    LET raw == TrimSpace(text)
        body == TrimSpace(SubSeq(raw, 2, Len(raw) - 1))
        parts == SplitComma(body, << >>)
        parsed == [i \in 1..Len(parts) |-> ParseFloat32(TrimSpace(parts[i]))]
    IN IF raw = << >> THEN [err |-> NoError, vector |-> << >>]
       ELSE IF Len(raw) < 2 \/ raw[1] # Byte.lbracket \/ raw[Len(raw)] # Byte.rbracket
       THEN [err |-> "invalid vector value", vector |-> << >>]
       ELSE IF body = << >> THEN [err |-> NoError, vector |-> << >>]
       ELSE IF \E i \in DOMAIN parsed : parsed[i].err # NoError
       THEN [err |-> "parse vector element", vector |-> << >>]
       ELSE [err |-> NoError, vector |-> [i \in DOMAIN parsed |-> parsed[i].f]]

errPgVector == "invalid input for type vector"

\* $n::vector: the column's input function; NaN is not allowed in a vector
\* and the column is vector(dimension).
pgVectorIn(text, dimension) ==
    LET parsed == parseVectorText(text) IN
    IF parsed.err # NoError \/ HasNaN(parsed.vector) \/ Len(parsed.vector) # dimension
    THEN [err |-> errPgVector, vector |-> << >>]
    ELSE parsed

\* vector::text
pgVectorOut(vector) == vectorLiteral(vector)

(***************************************************************************)
(* Insert, Upsert and Get.  A vectordata.Record is [ID, Vector, Metadata,  *)
(* Content]: Metadata is GoNil or a GoMap, Content is GoNil (a nil         *)
(* pointer) or a GoString.  A fault says where the storage fails or the    *)
(* context is cancelled while a chunk is written.                          *)
(***************************************************************************)
Record(id, vector, metadata, content) ==
    [ID |-> id, Vector |-> vector, Metadata |-> metadata, Content |-> content]

EmptyRecord == Record(<< >>, << >>, GoNil, GoNil)

writeModeInsert == "insert"
writeModeUpsert == "upsert"

errEmptyID == "record id is empty"
errDuplicateKey == "duplicate key"
errCardinality == "ON CONFLICT DO UPDATE command cannot affect row a second time"
errStorage == "storage failure or cancellation"

NoFault == [at |-> "none", index |-> 0, start |-> 0]
FaultAt(start, point, index) == [at |-> point, index |-> index, start |-> start]

contentArgEmptyForNil(content) ==
    IF content = GoNil THEN NVarchar(<< >>) ELSE NVarchar(content.str)

\* The content argument: NULL for a nil pointer.
contentArg(content) == IF content = GoNil THEN SqlNull ELSE NVarchar(content.str)

\* INSERT INTO t (id, vector, metadata, content) VALUES (@p1, @p2, @p3, @p4)
execInsertQuery(txTable, row) ==
    IF \E stored \in txTable : stored.id = row.id
    THEN [err |-> errDuplicateKey, table |-> txTable]
    ELSE [err |-> NoError, table |-> txTable \cup {row}]

noLockHints == {}

\* buildUpsertQuery: UPDATE ... WITH (UPDLOCK, SERIALIZABLE).
upsertLockHints == {"UPDLOCK", "SERIALIZABLE"}

execUpsertQueryKeepingContent(txTable, row) ==
    LET matched == {stored \in txTable : stored.id = row.id} IN
    IF matched # {}
    THEN [err |-> NoError,
          table |-> (txTable \ matched)
                    \cup {[stored EXCEPT !.vector = row.vector, !.metadata = row.metadata,
                                         !.content = IF row.content = SqlNull THEN @
                                                     ELSE row.content] : stored \in matched}]
    ELSE execInsertQuery(txTable, row)

\* buildUpsertQuery run by one session alone: the UPDATE sets the three
\* columns of the row with the id; with no such row the INSERT runs.
execUpsertQuery(txTable, row) ==
    LET matched == {stored \in txTable : stored.id = row.id} IN
    IF matched # {}
    THEN [err |-> NoError,
          table |-> (txTable \ matched)
                    \cup {[stored EXCEPT !.vector = row.vector, !.metadata = row.metadata,
                                         !.content = row.content] : stored \in matched}]
    ELSE execInsertQuery(txTable, row)

\* tx.ExecContext for one record of the batch; fault.index is the position
\* (from 1, within the chunk) of the statement that fails.
execRecord(txTable, record, mode, failed) ==
    LET row == StoredRow(record.ID, vectorJSON(record.Vector), metadataJSON(record.Metadata),
                         contentArg(record.Content))
    IN IF failed THEN [err |-> errStorage, table |-> txTable]
       ELSE IF mode = writeModeInsert THEN execInsertQuery(txTable, row)
       ELSE execUpsertQuery(txTable, row)

\* MSSQL writeBatch: the loop over the chunk's records inside the transaction.
RECURSIVE writeBatch(_, _, _, _, _, _)
RECURSIVE writeExecuted(_, _, _, _, _, _)
writeBatch(collection, txTable, records, mode, fault, position) ==
    IF records = << >> THEN [err |-> NoError, table |-> txTable]
    ELSE IF TrimSpace(Head(records).ID) = << >>
    THEN [err |-> errEmptyID, table |-> txTable]
    ELSE IF validateVectorDimension(collection.dimension, Head(records).Vector) # NoError
    THEN [err |-> ErrDimensionMismatch, table |-> txTable]
    ELSE IF vectorJSONError(Head(records).Vector) # NoError
    THEN [err |-> errUnsupportedValue, table |-> txTable]
    ELSE writeExecuted(collection, Tail(records), mode, fault, position,
                       execRecord(txTable, Head(records), mode,
                                  fault.at = "exec" /\ fault.index = position))

writeExecuted(collection, rest, mode, fault, position, executed) ==
    IF executed.err # NoError THEN executed
    ELSE writeBatch(collection, executed.table, rest, mode, fault, position + 1)

mssqlChunkEndedWithoutRollback(table, fault, batch) ==
    [err |-> IF batch.err # NoError THEN batch.err
             ELSE IF fault.at = "commit" THEN errStorage ELSE NoError,
     table |-> batch.table]

\* MSSQL writeRecords, one turn of its loop: BeginTx, writeBatch, then
\* Rollback on an error or Commit.
mssqlChunkEnded(table, fault, batch) ==
    IF batch.err # NoError THEN [err |-> batch.err, table |-> table]
    ELSE IF fault.at = "commit" THEN [err |-> errStorage, table |-> table]
    ELSE [err |-> NoError, table |-> batch.table]

mssqlWriteChunk(collection, table, chunk, mode, fault) ==
    IF fault.at = "begin" THEN [err |-> errStorage, table |-> table]
    ELSE mssqlChunkEnded(table, fault, writeBatch(collection, table, chunk, mode, fault, 1))

\* Postgres buildWriteBatch: validate and encode every record of the chunk
\* into one statement's arguments.
RECURSIVE buildWriteBatch(_, _, _)
buildWriteBatch(collection, records, args) ==
    IF records = << >> THEN [err |-> NoError, args |-> args]
    ELSE IF TrimSpace(Head(records).ID) = << >> THEN [err |-> errEmptyID, args |-> << >>]
    ELSE IF validateVectorDimension(collection.dimension, Head(records).Vector) # NoError
    THEN [err |-> ErrDimensionMismatch, args |-> << >>]
    ELSE buildWriteBatch(collection, Tail(records),
                         Append(args, [id |-> Head(records).ID,
                                       vector |-> vectorLiteral(Head(records).Vector),
                                       metadata |-> metadataJSON(Head(records).Metadata),
                                       content |-> contentArg(Head(records).Content)]))

\* The one INSERT ... VALUES ... [ON CONFLICT (id) DO UPDATE SET ...]
\* statement: it applies every row or none.
pgExecWrite(collection, table, args, mode) ==
    LET ids == {args[i].id : i \in DOMAIN args}
        vectors == [i \in DOMAIN args |-> pgVectorIn(args[i].vector, collection.dimension)]
        rows == {StoredRow(args[i].id, vectors[i].vector, args[i].metadata, args[i].content) :
                   i \in DOMAIN args}
        conflicting == {stored \in table : stored.id \in ids}
    IN IF \E i \in DOMAIN vectors : vectors[i].err # NoError
       THEN [err |-> errPgVector, table |-> table]
       ELSE IF Cardinality(ids) # Len(args)
       THEN [err |-> IF mode = writeModeInsert THEN errDuplicateKey ELSE errCardinality,
             table |-> table]
       ELSE IF mode = writeModeInsert /\ conflicting # {}
       THEN [err |-> errDuplicateKey, table |-> table]
       ELSE [err |-> NoError, table |-> (table \ conflicting) \cup rows]

\* Postgres writeRecords, one turn of its loop.
pgChunkBuilt(collection, table, mode, fault, built) ==
    IF built.err # NoError THEN [err |-> built.err, table |-> table]
    ELSE IF fault.at # "none" THEN [err |-> errStorage, table |-> table]
    ELSE pgExecWrite(collection, table, built.args, mode)

postgresWriteChunk(collection, table, chunk, mode, fault) ==
    pgChunkBuilt(collection, table, mode, fault, buildWriteBatch(collection, chunk, << >>))

writeChunk(collection, table, chunk, mode, fault) ==
    IF collection.backend = "mssql" THEN mssqlWriteChunk(collection, table, chunk, mode, fault)
    ELSE postgresWriteChunk(collection, table, chunk, mode, fault)

\* Get: SELECT ... WHERE id = @p1, then the decoding of the row.
mssqlGetDecoded(row, vector) ==
    IF vector.err # NoError THEN [err |-> vector.err, record |-> EmptyRecord]
    ELSE [err |-> NoError,
          record |-> Record(row.id, vector.vector, parseMetadataJSON(row.metadata),
                            DecodeContent(row.content))]

mssqlGet(table, id) ==
    LET rows == {row \in table : row.id = id} IN
    IF rows = {} THEN [err |-> ErrNotFound, record |-> EmptyRecord]
    ELSE LET row == CHOOSE r \in rows : TRUE IN mssqlGetDecoded(row, parseVectorJSON(row.vector))

\* Postgres parseMetadata: an empty or null document is an empty map.
parseMetadata(raw) == IF raw.j = "null" THEN GoMap(EmptyMap) ELSE JsonToGo(raw)

postgresGetDecoded(row, vector) ==
    IF vector.err # NoError THEN [err |-> vector.err, record |-> EmptyRecord]
    ELSE [err |-> NoError,
          record |-> Record(row.id, vector.vector, parseMetadata(row.metadata),
                            DecodeContent(row.content))]

postgresGet(table, id) ==
    LET rows == {row \in table : row.id = id} IN
    IF rows = {} THEN [err |-> ErrNotFound, record |-> EmptyRecord]
    ELSE LET row == CHOOSE r \in rows : TRUE
         IN postgresGetDecoded(row, parseVectorText(pgVectorOut(row.vector)))

getRecord(collection, table, id) ==
    IF collection.backend = "mssql" THEN mssqlGet(table, id) ELSE postgresGet(table, id)

\* writeRecords: the chunks in slice order, each in its own transaction
\* (MSSQL) or statement (Postgres); the first error ends the call.  start
\* is the loop variable; failedStart is its value when the call failed.
Min(a, b) == IF a < b THEN a ELSE b

NoFailure == 0 - 1

\* The chunk size, 500 in the source, scaled down with the slices.
maxRowsPerStatement == 2

RECURSIVE writeRecords(_, _, _, _, _, _)
RECURSIVE writeChunkEnded(_, _, _, _, _, _)
writeRecords(collection, table, records, mode, fault, start) ==
    IF start >= Len(records)
    THEN [err |-> NoError, table |-> table, failedStart |-> NoFailure]
    ELSE writeChunkEnded(collection, records, mode, fault, start,
                         writeChunk(collection, table,
                                    SubSeq(records, start + 1,
                                           Min(start + maxRowsPerStatement, Len(records))),
                                    mode,
                                    IF fault.start = start THEN fault ELSE NoFault))

writeChunkEnded(collection, records, mode, fault, start, ended) ==
    IF ended.err # NoError
    THEN [err |-> ended.err, table |-> ended.table, failedStart |-> start]
    ELSE writeRecords(collection, ended.table, records, mode, fault,
                      start + maxRowsPerStatement)

(***************************************************************************)
(* EnsureCollection on both backends: the statements it sends, one by one. *)
(***************************************************************************)
EnsureStrict == "strict"
EnsureAutoMigrate == "auto_migrate"

CollectionSpec(name, dimension, metric, mode) ==
    [Name |-> name, Dimension |-> dimension, Metric |-> metric, Mode |-> mode]

ZeroCollectionSpec == CollectionSpec(strEmpty, 0, "", "")

\* DistanceMetric.Validate.
MetricValidate(m) ==
    IF m \in {DistanceCosine, DistanceL2, DistanceInnerProduct}
    THEN NoError
    ELSE ErrSchemaMismatch

defaultMode(mode, strictByDefault) ==
    IF mode # "" THEN mode
    ELSE IF strictByDefault THEN EnsureStrict
    ELSE EnsureAutoMigrate

\* normalizeCollectionSpec of either store; Postgres validates the metric
\* through metricOperator, MSSQL through Validate.
normalizeCollectionSpec(backend, spec, strictByDefault) ==
    LET name == TrimSpace(spec.Name)
        metric == defaultMetric(spec.Metric)
        metricErr == IF backend = "postgres"
                     THEN metricOperator(metric).err
                     ELSE MetricValidate(metric)
        mode == defaultMode(spec.Mode, strictByDefault)
        rejected == [err |-> ErrSchemaMismatch, spec |-> ZeroCollectionSpec, mode |-> ""]
    IN  IF name = strEmpty THEN rejected
        ELSE IF spec.Dimension <= 0 THEN rejected
        ELSE IF metricErr # NoError THEN rejected
        ELSE IF mode # EnsureStrict /\ mode # EnsureAutoMigrate THEN rejected
        ELSE [err |-> NoError,
              spec |-> [spec EXCEPT !.Name = name, !.Metric = metric],
              mode |-> mode]

\* The handle EnsureCollection and Collection return.
Handle(name, dimension, metric) ==
    [name |-> name, dimension |-> dimension, metric |-> metric]

NoHandle == [name |-> strEmpty, dimension |-> 0, metric |-> ""]

newCollectionHandle(backend, name, dimension, metric) ==
    Handle(IF backend = "mssql" THEN TrimSpace(name) ELSE name,
           dimension, defaultMetric(metric))

\* A table as the catalog describes it: the type of each of the four columns
\* ("" when the column is missing), whether id carries the primary key, and
\* the dimension in the vector column's type (Postgres vector(n); 0 when the
\* type has none, as on MSSQL where the column is NVARCHAR(MAX)).
\* rows: the table's rows, each the text of its cells; a table starts empty.
TableShape(name, idType, vectorType, pk, metadataType, contentType, dimension) ==
    [name |-> name, idType |-> idType, vectorType |-> vectorType, pk |-> pk,
     metadataType |-> metadataType, contentType |-> contentType,
     dimension |-> dimension, rows |-> {}]

\* The cell of a column the table does not have, and the cells ALTER TABLE
\* ... ADD gives the existing rows: the DEFAULT of the metadata column, NULL
\* in the content column.
NoCell == "<no column>"
DefaultMetadataCell == "{}"
NullCell == "NULL"

CatalogRow(id, vector, metadata, content) ==
    [id |-> id, vector |-> vector, metadata |-> metadata, content |-> content]

\* A row of __vector_collections (MSSQL only).
RegistryRow(name, dimension, metric) ==
    [name |-> name, dimension |-> dimension, metric |-> metric]

\* tables: the collection tables; registry: the rows of __vector_collections;
\* indexes: the indexes EnsureIndexes created; base: whether the schema (and
\* on MSSQL the registry table) exists.
Database(tables, registry, indexes, base) ==
    [tables |-> tables, registry |-> registry, indexes |-> indexes, base |-> base]

EmptyDatabase == Database({}, {}, {}, FALSE)

tablesNamed(db, name) == {t \in db.tables : t.name = name}

tableExists(db, name) == tablesNamed(db, name) # {}

isStringType(dataType) ==
    dataType \in {"varchar", "nvarchar", "char", "nchar", "text", "ntext"}

ensureBaseSchema(db) == [db EXCEPT !.base = TRUE]

\* MSSQL: IF OBJECT_ID(...) IS NULL CREATE TABLE ...; Postgres: CREATE TABLE
\* IF NOT EXISTS ... vector(dimension).  Neither touches an existing table.
createCollectionTable(backend, db, name, dimension) ==
    IF tableExists(db, name) THEN db
    ELSE IF backend = "mssql"
    THEN [db EXCEPT !.tables = @ \cup
            {TableShape(name, "nvarchar", "nvarchar", TRUE, "nvarchar", "nvarchar", 0)}]
    ELSE [db EXCEPT !.tables = @ \cup
            {TableShape(name, "text", "vector", TRUE, "jsonb", "text", dimension)}]

\* MERGE into __vector_collections: update the row of that name or insert it.
upsertCollectionMetadata(db, name, dimension, metric) ==
    [db EXCEPT !.registry =
        {r \in @ : r.name # name} \cup {RegistryRow(name, dimension, metric)}]

\* A lookup that never finds the row.
readCollectionMetadataNone(db, name) ==
    [found |-> FALSE, dimension |-> 0, metric |-> ""]

\* SELECT dimension, metric FROM __vector_collections WHERE name = @p1.
readCollectionMetadata(db, name) ==
    LET rows == {r \in db.registry : r.name = name}
    IN  IF rows = {}
        THEN [found |-> FALSE, dimension |-> 0, metric |-> ""]
        ELSE LET r == CHOOSE r \in rows : TRUE
             IN  [found |-> TRUE, dimension |-> r.dimension, metric |-> r.metric]

replaceTable(db, old, new) == [db EXCEPT !.tables = (@ \ {old}) \cup {new}]

Validated(err, db) == [err |-> err, db |-> db]

\* Optional columns added whatever the mode.
validateOptionalColumnsAnyMode(backend, db, t, mode) ==
    LET metadataOk == IF backend = "mssql" THEN isStringType(t.metadataType)
                      ELSE t.metadataType = "jsonb"
        contentOk == IF backend = "mssql" THEN isStringType(t.contentType)
                     ELSE t.contentType = "text"
        addedMetadata == [t EXCEPT !.metadataType =
                            IF backend = "mssql" THEN "nvarchar" ELSE "jsonb",
                          !.rows = {[r EXCEPT !.metadata = DefaultMetadataCell] : r \in @}]
        afterMetadata == IF t.metadataType = "" THEN addedMetadata ELSE t
        addedContent == [afterMetadata EXCEPT !.contentType =
                            IF backend = "mssql" THEN "nvarchar" ELSE "text",
                          !.rows = {[r EXCEPT !.content = NullCell] : r \in @}]
    IN  IF t.metadataType = "" /\ mode = ""
        THEN Validated(ErrSchemaMismatch, db)
        ELSE IF t.metadataType # "" /\ ~metadataOk
        THEN Validated(ErrSchemaMismatch, db)
        ELSE IF t.contentType = "" /\ mode = ""
        THEN Validated(ErrSchemaMismatch, replaceTable(db, t, afterMetadata))
        ELSE IF t.contentType # "" /\ ~contentOk
        THEN Validated(ErrSchemaMismatch, replaceTable(db, t, afterMetadata))
        ELSE IF t.contentType = ""
        THEN Validated(NoError, replaceTable(db, t, addedContent))
        ELSE Validated(NoError, replaceTable(db, t, afterMetadata))

\* The optional columns: missing ones are an error in strict mode and added
\* in auto-migrate mode; present ones must have the backend's type.
validateOptionalColumns(backend, db, t, mode) ==
    LET metadataOk == IF backend = "mssql" THEN isStringType(t.metadataType)
                      ELSE t.metadataType = "jsonb"
        contentOk == IF backend = "mssql" THEN isStringType(t.contentType)
                     ELSE t.contentType = "text"
        addedMetadata == [t EXCEPT !.metadataType =
                            IF backend = "mssql" THEN "nvarchar" ELSE "jsonb",
                          !.rows = {[r EXCEPT !.metadata = DefaultMetadataCell] : r \in @}]
        afterMetadata == IF t.metadataType = "" THEN addedMetadata ELSE t
        addedContent == [afterMetadata EXCEPT !.contentType =
                            IF backend = "mssql" THEN "nvarchar" ELSE "text",
                          !.rows = {[r EXCEPT !.content = NullCell] : r \in @}]
    IN  IF t.metadataType = "" /\ mode = EnsureStrict
        THEN Validated(ErrSchemaMismatch, db)
        ELSE IF t.metadataType # "" /\ ~metadataOk
        THEN Validated(ErrSchemaMismatch, db)
        ELSE IF t.contentType = "" /\ mode = EnsureStrict
        THEN Validated(ErrSchemaMismatch, replaceTable(db, t, afterMetadata))
        ELSE IF t.contentType # "" /\ ~contentOk
        THEN Validated(ErrSchemaMismatch, replaceTable(db, t, afterMetadata))
        ELSE IF t.contentType = ""
        THEN Validated(NoError, replaceTable(db, t, addedContent))
        ELSE Validated(NoError, replaceTable(db, t, afterMetadata))

errVectorType == "read vector type"

\* Postgres readVectorDimension / parseVectorDimension on format_type(...).
readVectorDimension(t) ==
    IF t.dimension <= 0
    THEN [err |-> errVectorType, dimension |-> 0]
    ELSE [err |-> NoError, dimension |-> t.dimension]

\* validateCollectionSchema of either store.  The Postgres one ends by
\* comparing the vector column's dimension with the requested one; the MSSQL
\* one checks the columns only.
validateCollectionSchema(backend, db, name, expectedDimension, mode) ==
    IF ~tableExists(db, name) THEN Validated(ErrSchemaMismatch, db)
    ELSE
    LET t == CHOOSE t \in tablesNamed(db, name) : TRUE
        idOk == IF backend = "mssql" THEN isStringType(t.idType) ELSE t.idType = "text"
        vectorOk == IF backend = "mssql" THEN isStringType(t.vectorType)
                    ELSE t.vectorType = "vector"
    IN  IF t.idType = "" \/ t.vectorType = "" THEN Validated(ErrSchemaMismatch, db)
        ELSE IF ~idOk \/ ~vectorOk THEN Validated(ErrSchemaMismatch, db)
        ELSE IF ~t.pk THEN Validated(ErrSchemaMismatch, db)
        ELSE LET optional == validateOptionalColumns(backend, db, t, mode)
                 read == readVectorDimension(t)
             IN  IF optional.err # NoError \/ backend = "mssql" THEN optional
                 ELSE IF read.err # NoError THEN Validated(read.err, optional.db)
                 ELSE IF read.dimension # expectedDimension
                 THEN Validated(ErrSchemaMismatch, optional.db)
                 ELSE optional

\* One EnsureCollection call in flight: the spec it was given, the normalized
\* spec and mode, its position, what it returned.
EnsureCall(spec, normalized, mode, pc, err, handle) ==
    [spec |-> spec, normalized |-> normalized, mode |-> mode, pc |-> pc,
     err |-> err, handle |-> handle]

NewEnsureCall(spec) ==
    EnsureCall(spec, ZeroCollectionSpec, "", "normalizeCollectionSpec", "pending", NoHandle)

Stepped(db, call) == [db |-> db, call |-> call]

ensureFailed(db, call, err) ==
    Stepped(db, [call EXCEPT !.pc = "done", !.err = err])

ensureSucceeded(backend, db, call) ==
    Stepped(db, [call EXCEPT !.pc = "done", !.err = NoError,
                 !.handle = newCollectionHandle(backend, call.normalized.Name,
                                call.normalized.Dimension, call.normalized.Metric)])

ensureAt(db, call, pc) == Stepped(db, [call EXCEPT !.pc = pc])

\* The comparison that follows readCollectionMetadata in the MSSQL
\* ensureTableWithValidation.
compareCollectionMetadata(db, call, meta) ==
    IF ~meta.found
    THEN IF call.mode = EnsureStrict
         THEN ensureFailed(db, call, ErrSchemaMismatch)
         ELSE ensureAt(db, call, "upsertCollectionMetadata")
    ELSE IF meta.dimension # call.normalized.Dimension
    THEN ensureFailed(db, call, ErrSchemaMismatch)
    ELSE IF defaultMetric(meta.metric) # defaultMetric(call.normalized.Metric)
    THEN ensureFailed(db, call, ErrSchemaMismatch)
    ELSE ensureSucceeded("mssql", db, call)

normalizedCall(backend, db, call, n) ==
    IF n.err # NoError THEN ensureFailed(db, call, n.err)
    ELSE Stepped(db, [call EXCEPT !.normalized = n.spec, !.mode = n.mode,
                                  !.pc = "ensureBaseSchema"])

validatedCall(backend, call, v) ==
    IF v.err # NoError THEN ensureFailed(v.db, call, v.err)
    ELSE IF backend = "mssql" THEN ensureAt(v.db, call, "readCollectionMetadata")
    ELSE ensureSucceeded(backend, v.db, call)

\* The next statement of EnsureCollection / ensureTableWithValidation, with
\* the Go code that runs up to the statement after it.
ensureStep(backend, strictByDefault, db, call) ==
    CASE call.pc = "normalizeCollectionSpec" ->
            normalizedCall(backend, db, call,
                normalizeCollectionSpec(backend, call.spec, strictByDefault))
      [] call.pc = "ensureBaseSchema" ->
            ensureAt(ensureBaseSchema(db), call, "tableExists")
      [] call.pc = "tableExists" ->
            IF tableExists(db, call.normalized.Name)
            THEN ensureAt(db, call, "validateCollectionSchema")
            ELSE ensureAt(db, call, "createCollectionTable")
      [] call.pc = "createCollectionTable" ->
            IF backend = "mssql"
            THEN ensureAt(createCollectionTable(backend, db, call.normalized.Name,
                              call.normalized.Dimension),
                          call, "upsertCollectionMetadata")
            ELSE ensureSucceeded(backend,
                     createCollectionTable(backend, db, call.normalized.Name,
                         call.normalized.Dimension),
                     call)
      [] call.pc = "upsertCollectionMetadata" ->
            ensureSucceeded(backend,
                upsertCollectionMetadata(db, call.normalized.Name,
                    call.normalized.Dimension, call.normalized.Metric),
                call)
      [] call.pc = "validateCollectionSchema" ->
            validatedCall(backend, call,
                validateCollectionSchema(backend, db, call.normalized.Name,
                    call.normalized.Dimension, call.mode))
      [] call.pc = "readCollectionMetadata" ->
            compareCollectionMetadata(db, call,
                readCollectionMetadata(db, call.normalized.Name))
      [] OTHER -> Stepped(db, call)

\* A call that runs alone, from wherever it is to its return.
RECURSIVE ensureRun(_, _, _)
ensureRun(backend, strictByDefault, s) ==
    IF s.call.pc = "done" THEN s
    ELSE ensureRun(backend, strictByDefault,
                   ensureStep(backend, strictByDefault, s.db, s.call))

\* EnsureCollection with nothing else running.
EnsureCollection(backend, strictByDefault, db, spec) ==
    ensureRun(backend, strictByDefault, Stepped(db, NewEnsureCall(spec)))

(***************************************************************************)
(* EnsureIndexes.                                                          *)
(***************************************************************************)
IndexMethodHNSW == "hnsw"
IndexMethodIVFFlat == "ivfflat"

NilIndexOptions == [nil |-> TRUE]
VectorIndexOptions(method, metric) == [Method |-> method, Metric |-> metric]
MetadataIndexOptions(usePathOps) == [UsePathOps |-> usePathOps]
IndexOptions(vector, metadata) == [Vector |-> vector, Metadata |-> metadata]

errIndexNotSupported == ErrSchemaMismatch

\* EnsureIndexes refusing a vector index only.
mssqlEnsureIndexesVectorOnly(db, opts) ==
    IF opts.Vector = NilIndexOptions
    THEN [err |-> NoError, db |-> db]
    ELSE [err |-> errIndexNotSupported, db |-> db]

\* MSSQLCollection.EnsureIndexes: no statement is ever sent.
mssqlEnsureIndexes(db, opts) ==
    IF opts.Vector = NilIndexOptions /\ opts.Metadata = NilIndexOptions
    THEN [err |-> NoError, db |-> db]
    ELSE [err |-> errIndexNotSupported, db |-> db]

metricOpClass(metric) ==
    CASE metric = DistanceCosine -> [err |-> NoError, opClass |-> "vector_cosine_ops"]
      [] metric = DistanceL2 -> [err |-> NoError, opClass |-> "vector_l2_ops"]
      [] metric = DistanceInnerProduct -> [err |-> NoError, opClass |-> "vector_ip_ops"]
      [] OTHER -> [err |-> ErrSchemaMismatch, opClass |-> ""]

buildVectorIndexWithClause(method) ==
    IF method \in {IndexMethodHNSW, IndexMethodIVFFlat} THEN NoError
    ELSE ErrSchemaMismatch

\* CREATE INDEX IF NOT EXISTS on the collection's table under the default
\* index name for that collection and kind.
createIndex(db, handle, index) ==
    IF ~tableExists(db, handle.name)
    THEN [err |-> errStorage, db |-> db]
    ELSE IF \E i \in db.indexes : i.table = handle.name /\ i.name = index.name
    THEN [err |-> NoError, db |-> db]
    ELSE [err |-> NoError, db |-> [db EXCEPT !.indexes = @ \cup {index}]]

ensureVectorIndex(db, handle, opts) ==
    LET method == IF opts.Method # "" THEN opts.Method ELSE IndexMethodHNSW
        metric == IF opts.Metric # "" THEN opts.Metric ELSE defaultMetric(handle.metric)
        opClass == metricOpClass(metric)
    IN  IF opClass.err # NoError THEN [err |-> opClass.err, db |-> db]
        ELSE IF buildVectorIndexWithClause(method) # NoError
        THEN [err |-> ErrSchemaMismatch, db |-> db]
        ELSE createIndex(db, handle,
                 [table |-> handle.name, name |-> <<"vector", method>>,
                  using |-> method, opClass |-> opClass.opClass])

ensureMetadataIndex(db, handle, opts) ==
    createIndex(db, handle,
        [table |-> handle.name, name |-> <<"metadata", "gin">>, using |-> "gin",
         opClass |-> IF opts.UsePathOps THEN "jsonb_path_ops" ELSE ""])

postgresMetadataIndex(v, handle, opts) ==
    IF v.err # NoError THEN v
    ELSE IF opts.Metadata = NilIndexOptions THEN v
    ELSE ensureMetadataIndex(v.db, handle, opts.Metadata)

postgresEnsureIndexes(db, handle, opts) ==
    postgresMetadataIndex(
        IF opts.Vector = NilIndexOptions THEN [err |-> NoError, db |-> db]
        ELSE ensureVectorIndex(db, handle, opts.Vector),
        handle, opts)

(***************************************************************************)
(* vectordata.ScoreFromDistance: a float64 result and no error result.     *)
(***************************************************************************)
ScoreFromDistance(metric, distance) ==
    CASE metric = DistanceCosine -> ToFixed(1) - distance
      [] metric = DistanceL2 -> FixedDiv(ToFixed(1), ToFixed(1) + distance)
      [] metric = DistanceInnerProduct -> 0 - distance
      [] OTHER -> 0 - distance

(***************************************************************************)
(* Delete: DELETE ... WHERE id IN (@p1, ...) on MSSQL, WHERE id = ANY($1)  *)
(* on Postgres; an empty ID list returns 0 without a statement.            *)
(***************************************************************************)
Deleted(err, table, count) == [err |-> err, table |-> table, count |-> count]

idsOf(ids) == {ids[i] : i \in DOMAIN ids}

mssqlDelete(table, ids) ==
    LET hit == {row \in table : row.id \in idsOf(ids)} IN
    IF Len(ids) = 0 THEN Deleted(NoError, table, 0)
    ELSE Deleted(NoError, table \ hit, Cardinality(hit))

postgresDelete(table, ids) ==
    LET hit == {row \in table : row.id \in idsOf(ids)} IN
    IF Len(ids) = 0 THEN Deleted(NoError, table, 0)
    ELSE Deleted(NoError, table \ hit, Cardinality(hit))

\* A Delete that reports the rows as removed and leaves them stored.
deleteRecordsKeepingRows(collection, table, ids) ==
    Deleted(NoError, table, Cardinality({row \in table : row.id \in idsOf(ids)}))

deleteRecords(collection, table, ids) ==
    IF collection.backend = "mssql" THEN mssqlDelete(table, ids)
    ELSE postgresDelete(table, ids)

(***************************************************************************)
(* SpecHeap: one streamed search.  The rows that pass the filter and the   *)
(* threshold arrive one at a time in the order the table scan yields them. *)
(***************************************************************************)
MaxTopK == 3
MaxDistance == 1
HeapIDs == {strA, strB, strC, strD}

CandidateSets ==
    UNION {{{SearchResult(id, d[id]) : id \in ids} : d \in [ids -> 0..MaxDistance]} :
            ids \in SUBSET HeapIDs}

ArrivalOrders(candidates) ==
    {order \in [1..Cardinality(candidates) -> candidates] :
        \A c \in candidates : \E i \in DOMAIN order : order[i] = c}

InitHeap ==
    /\ hpCandidates \in CandidateSets
    /\ hpArrival \in ArrivalOrders(hpCandidates)
    /\ hpTopK \in 1..MaxTopK
    /\ hpHeap = << >>
    /\ hpResults = << >>
    /\ hpPc = "stream"
    /\ FilterIdle
    /\ SearchIdle
    /\ WriteIdle
    /\ UpsertIdle
    /\ EnsureIdle
    /\ CompileIdle

\* The streamRecords callback on the next row.
HeapOffer ==
    /\ hpPc = "stream"
    /\ hpArrival # << >>
    /\ hpHeap' = offerCandidate(hpHeap, hpTopK, Head(hpArrival))
    /\ hpArrival' = Tail(hpArrival)
    /\ UNCHANGED <<hpCandidates, hpTopK, hpResults, hpPc>>
    /\ UNCHANGED otherThanHeap

\* The stream is exhausted: drain the heap and sort.
HeapFinish ==
    /\ hpPc = "stream"
    /\ hpArrival = << >>
    /\ hpResults' = sortResults(drainHeap(hpHeap))
    /\ hpHeap' = << >>
    /\ hpPc' = "done"
    /\ UNCHANGED <<hpCandidates, hpArrival, hpTopK>>
    /\ UNCHANGED otherThanHeap

NextHeap == HeapOffer \/ HeapFinish

SpecHeap == InitHeap /\ [][NextHeap]_vars

\* The order the claim names: distance ascending, then ID ascending.
RanksBefore(a, b) ==
    \/ a.Distance < b.Distance
    \/ a.Distance = b.Distance /\ StringLess(a.ID, b.ID)

ResultSet(results) == {results[i] : i \in DOMAIN results}

\* C2: whatever the arrival order, the streamed search returns exactly the
\* min(topK, n) best candidates under (distance ascending, ID ascending),
\* listed in that order.
C2_HeapReturnsBestInOrder ==
    hpPc = "done" =>
        /\ Len(hpResults) =
             (IF hpTopK < Cardinality(hpCandidates) THEN hpTopK ELSE Cardinality(hpCandidates))
        /\ ResultSet(hpResults) \subseteq hpCandidates
        /\ \A i, j \in DOMAIN hpResults : i < j => RanksBefore(hpResults[i], hpResults[j])
        /\ \A c \in hpCandidates \ ResultSet(hpResults) :
             \A i \in DOMAIN hpResults : RanksBefore(hpResults[i], c)

\* C2 (witness): a finished search with more candidates than topK in which a
\* returned candidate and a dropped one are at the same distance.
C2_TieAcrossTheCut ==
    /\ hpPc = "done"
    /\ Cardinality(hpCandidates) > hpTopK
    /\ \E r \in ResultSet(hpResults) : \E c \in hpCandidates \ ResultSet(hpResults) :
         c.Distance = r.Distance

(***************************************************************************)
(* SpecSearch: a populated collection answers one Count or SearchByVector. *)
(***************************************************************************)
MaxSearchTopK == 2

SearchIDs == {strA, strB, strC}
SearchMetrics == {DistanceCosine, DistanceL2, DistanceInnerProduct}
SearchCollections ==
    {[backend |-> b, dimension |-> 2, metric |-> m] :
        b \in {"mssql", "postgres"}, m \in SearchMetrics}

\* Stored vectors; on MSSQL the column is text, so a vector of another
\* length can sit in the table.
StoredVectors == {<<1, 0>>, <<0, 1>>}
ForeignVectors == {<<1>>}
SearchMetadata == {JObject(EmptyMap), JObject([key \in {strK} |-> JString(strA)])}

SearchRows(backend, id) ==
    IF backend = "mssql"
    THEN {StoredRow(id, vectorJSON(v), m, SqlNull) :
            v \in StoredVectors \cup ForeignVectors, m \in SearchMetadata}
    ELSE {StoredRow(id, v, m, SqlNull) : v \in StoredVectors, m \in SearchMetadata}

SearchTables(backend) ==
    UNION {{{pick[id] : id \in ids} :
              pick \in {f \in [ids -> UNION {SearchRows(backend, id) : id \in ids}] :
                          \A id \in ids : f[id].id = id}} :
            ids \in SUBSET SearchIDs}

SearchFilters ==
    {NilFilter,
     Eq(Metadata(<<strK>>), GoString(strA)),
     Not(Eq(Metadata(<<strK>>), GoNil)),
     Or(<<Eq(Metadata(<<strK>>), GoNil), Eq(Metadata(<<strK>>), GoString(strA))>>),
     Eq(Column(strBogus), GoString(strA)),
     In(Metadata(<<strK>>), << >>),
     And(<<Not(Eq(Metadata(<<strK>>), GoNil)), Eq(Column(strBogus), GoString(strA))>>)}

QueryVectors == {<<1, 0>>, <<1>>}
SearchThresholds == {NoThreshold, Threshold(0), Threshold(500)}

CountRequest(filter) == [op |-> "Count", Filter |-> filter]
SearchRequest(vector, topK, opts) ==
    [op |-> "SearchByVector", Vector |-> vector, TopK |-> topK, Options |-> opts]

InitSearch ==
    /\ srCollection \in SearchCollections
    /\ srTable \in SearchTables(srCollection.backend)
    /\ srRequest = NoRequest
    /\ srResponse = NoResponse
    /\ srPc = "ready"
    /\ FilterIdle
    /\ HeapIdle
    /\ WriteIdle
    /\ UpsertIdle
    /\ EnsureIdle
    /\ CompileIdle

CountMSSQL ==
    /\ srPc = "ready"
    /\ srCollection.backend = "mssql"
    /\ \E filter \in SearchFilters, scan \in ArrivalOrders(srTable) :
         /\ srRequest' = CountRequest(filter)
         /\ srResponse' = mssqlCount(srTable, scan, filter)
    /\ srPc' = "returned"
    /\ UNCHANGED <<srCollection, srTable>>
    /\ UNCHANGED otherThanSearch

SearchByVectorMSSQL ==
    /\ srPc = "ready"
    /\ srCollection.backend = "mssql"
    /\ \E filter \in SearchFilters, threshold \in SearchThresholds,
          vector \in QueryVectors, topK \in 0..MaxSearchTopK,
          scan \in ArrivalOrders(srTable) :
         /\ srRequest' = SearchRequest(vector, topK, SearchOptions(filter, threshold))
         /\ srResponse' = mssqlSearchByVector(srCollection, srTable, scan, vector, topK,
                                              SearchOptions(filter, threshold))
    /\ srPc' = "returned"
    /\ UNCHANGED <<srCollection, srTable>>
    /\ UNCHANGED otherThanSearch

SearchByVectorPostgres ==
    /\ srPc = "ready"
    /\ srCollection.backend = "postgres"
    /\ \E threshold \in SearchThresholds, vector \in QueryVectors, topK \in 0..MaxSearchTopK :
         /\ srRequest' = SearchRequest(vector, topK, SearchOptions(NilFilter, threshold))
         /\ srResponse' \in postgresSearchByVector(srCollection, srTable, vector, topK,
                                                   SearchOptions(NilFilter, threshold))
    /\ srPc' = "returned"
    /\ UNCHANGED <<srCollection, srTable>>
    /\ UNCHANGED otherThanSearch

NextSearch == CountMSSQL \/ SearchByVectorMSSQL \/ SearchByVectorPostgres

SpecSearch == InitSearch /\ [][NextSearch]_vars

ResultIDs(results) == {results[i].ID : i \in DOMAIN results}

SearchReturned ==
    /\ srPc = "returned"
    /\ srRequest.op = "SearchByVector"
    /\ srResponse.err = NoError

\* C3: on every backend and search path, records at exactly equal distance
\* come back in ascending ID order, and of two stored records that differ
\* only in their ID the one with the smaller ID survives the topK cut.
C3_TiesBrokenByAscendingId ==
    SearchReturned =>
        /\ \A i, j \in DOMAIN srResponse.results :
             (i < j /\ srResponse.results[i].Distance = srResponse.results[j].Distance)
                => StringLess(srResponse.results[i].ID, srResponse.results[j].ID)
        /\ \A kept, dropped \in srTable :
             (/\ kept.id \in ResultIDs(srResponse.results)
              /\ dropped.id \notin ResultIDs(srResponse.results)
              /\ kept.vector = dropped.vector
              /\ kept.metadata = dropped.metadata)
                => StringLess(kept.id, dropped.id)

\* C3 (failing input): Postgres, records "a" and "b" both storing [1, 0],
\* query [1, 0], topK = 1: the search returned "b" and dropped "a".
C3_PostgresKeepsLargerIdOfTie ==
    /\ SearchReturned
    /\ srCollection.backend = "postgres"
    /\ srRequest.TopK = 1
    /\ srRequest.Vector = <<1, 0>>
    /\ \E m \in SearchMetadata : srTable = {StoredRow(strA, <<1, 0>>, m, SqlNull),
                                           StoredRow(strB, <<1, 0>>, m, SqlNull)}
    /\ ResultIDs(srResponse.results) = {strB}

\* The filter of the request, and whether the call gets as far as compiling
\* it (Count: any non-nil filter; SearchByVector: topK and the query vector
\* passed their checks first).
RequestFilter == IF srRequest.op = "Count" THEN srRequest.Filter ELSE srRequest.Options.Filter

ReachedCompile ==
    /\ srPc = "returned"
    /\ srCollection.backend = "mssql"
    /\ RequestFilter # NilFilter
    /\ srRequest.op = "SearchByVector" =>
         (srRequest.TopK > 0 /\ Len(srRequest.Vector) = srCollection.dimension)

StreamingOutcomes ==
    IF srRequest.op = "Count"
    THEN {[results |-> << >>, count |-> streamed.count, err |-> streamed.err] :
            streamed \in {streamCount(scan, RequestFilter, 0) : scan \in ArrivalOrders(srTable)}}
    ELSE {[results |-> streamed.results, count |-> 0, err |-> streamed.err] :
            streamed \in {searchByVectorStreaming(srCollection, scan, srRequest.Vector,
                                                  srRequest.TopK, srRequest.Options) :
                            scan \in ArrivalOrders(srTable)}}

\* C4: MSSQL Count and SearchByVector never return the pushdown-unsupported
\* signal; when compilation fails with it the call returns what the
\* streaming path returns, and any other compilation error is returned
\* as it is without running the streaming path.
C4_OnlyPushdownSignalIsSwallowed ==
    /\ (srPc = "returned" /\ srCollection.backend = "mssql")
          => srResponse.err # errFilterPushdownUnsupported
    /\ ReachedCompile =>
         LET compileErr == compileMSSQLFilterSQL(RequestFilter, 1).err IN
         /\ compileErr = errFilterPushdownUnsupported =>
              /\ srResponse.ranStreaming
              /\ ~srResponse.ranSQL
              /\ [results |-> srResponse.results, count |-> srResponse.count,
                  err |-> srResponse.err] \in StreamingOutcomes
         /\ compileErr \notin {NoError, errFilterPushdownUnsupported} =>
              /\ srResponse.err = compileErr
              /\ ~srResponse.ranStreaming
              /\ ~srResponse.ranSQL

\* C4 (witness): a search whose filter the compiler refused with the
\* pushdown signal, answered by the streaming path with results.
C4_FallbackAnswered ==
    /\ ReachedCompile
    /\ srRequest.op = "SearchByVector"
    /\ compileMSSQLFilterSQL(RequestFilter, 1).err = errFilterPushdownUnsupported
    /\ srResponse.ranStreaming
    /\ srResponse.err = NoError
    /\ srResponse.results # << >>

(***************************************************************************)
(* SpecWrite: a session of single-record Insert and Upsert calls, Get and  *)
(* SearchByVector on one collection of dimension 2, on a healthy store.    *)
(* The MSSQL store also hands out unchecked handles (Collection(name,      *)
(* dimension, metric)), so a second handle of another dimension can write  *)
(* the same table.                                                         *)
(***************************************************************************)
MaxCalls == 3

strSpace == <<Byte.space>>

MetaInt == GoMap([key \in {strK} |-> GoInt(1)])
MetaString == GoMap([key \in {strK} |-> GoString(strA)])

WriteRecords ==
    {Record(strA, <<1, 0>>, GoNil, GoNil),
     Record(strA, <<0, 1>>, MetaInt, GoString(strA)),
     Record(strA, <<0, 1>>, MetaString, GoNil),
     Record(strB, <<1, 0>>, MetaString, GoString(strB)),
     Record(strEmpty, <<1, 0>>, GoNil, GoNil),
     Record(strSpace, <<1>>, GoNil, GoNil),
     Record(strA, <<1, 0, 1>>, GoNil, GoNil),
     Record(strB, <<1>>, GoNil, GoNil),
     Record(strB, <<1, Float32.nan>>, GoNil, GoNil)}

OtherHandleRecord == Record(strC, <<1>>, GoNil, GoNil)

WriteCollections ==
    {[backend |-> b, dimension |-> 2, metric |-> DistanceCosine] : b \in {"mssql", "postgres"}}

\* The handle Collection(name, 1, metric) of the same store and table.
OtherHandle(collection) == [collection EXCEPT !.dimension = 1]

UnsupportedPushdownFilter == Not(Eq(Metadata(<<strK>>), GoNil))

SessionSearches(backend) ==
    {SearchRequest(<<1, 0>>, 1, SearchOptions(NilFilter, NoThreshold)),
     SearchRequest(<<1>>, 1, SearchOptions(NilFilter, NoThreshold)),
     SearchRequest(<<1>>, 0, SearchOptions(NilFilter, NoThreshold))}
    \cup IF backend = "mssql"
         THEN {SearchRequest(<<1, 0>>, 1, SearchOptions(UnsupportedPushdownFilter, NoThreshold))}
         ELSE {}

WriteCall(op, handle, records, fault, before, written) ==
    [op |-> op, handle |-> handle, records |-> records, fault |-> fault, before |-> before,
     err |-> written.err, after |-> written.table, failedStart |-> written.failedStart]

GetCall(id, got) == [op |-> "Get", id |-> id, err |-> got.err, record |-> got.record]

SearchCall(request, table, response) ==
    [op |-> "SearchByVector", request |-> request, table |-> table, response |-> response]

\* A write call from the moment writeRecords has returned.
WriteReturned(op, handle, records, fault, written) ==
    /\ wrTable' = written.table
    /\ wrHistory' = Append(wrHistory, WriteCall(op, handle, records, fault, wrTable, written))

InitWrite ==
    /\ wrCollection \in WriteCollections
    /\ wrTable = {}
    /\ wrHistory = << >>
    /\ wrPc = "ready"
    /\ UpsertIdle
    /\ EnsureIdle
    /\ CompileIdle
    /\ FilterIdle
    /\ HeapIdle
    /\ SearchIdle

InsertRecord ==
    /\ wrPc = "ready"
    /\ Len(wrHistory) < MaxCalls
    /\ \E record \in WriteRecords :
         WriteReturned("Insert", wrCollection, <<record>>, NoFault,
                       writeRecords(wrCollection, wrTable, <<record>>, writeModeInsert,
                                    NoFault, 0))
    /\ UNCHANGED <<wrCollection, wrPc>>
    /\ UNCHANGED otherThanWrite

UpsertRecord ==
    /\ wrPc = "ready"
    /\ Len(wrHistory) < MaxCalls
    /\ \E record \in WriteRecords :
         WriteReturned("Upsert", wrCollection, <<record>>, NoFault,
                       writeRecords(wrCollection, wrTable, <<record>>, writeModeUpsert,
                                    NoFault, 0))
    /\ UNCHANGED <<wrCollection, wrPc>>
    /\ UNCHANGED otherThanWrite

\* Upsert through a handle of dimension 1 on the same table.
UpsertOtherHandle ==
    /\ wrPc = "ready"
    /\ Len(wrHistory) < MaxCalls
    /\ WriteReturned("Upsert", OtherHandle(wrCollection), <<OtherHandleRecord>>, NoFault,
                     writeRecords(OtherHandle(wrCollection), wrTable, <<OtherHandleRecord>>,
                                  writeModeUpsert, NoFault, 0))
    /\ UNCHANGED <<wrCollection, wrPc>>
    /\ UNCHANGED otherThanWrite

GetRecord ==
    /\ wrPc = "ready"
    /\ Len(wrHistory) < MaxCalls
    /\ \E id \in {strA, strB} :
         wrHistory' = Append(wrHistory, GetCall(id, getRecord(wrCollection, wrTable, id)))
    /\ UNCHANGED <<wrCollection, wrTable, wrPc>>
    /\ UNCHANGED otherThanWrite

SearchSession ==
    /\ wrPc = "ready"
    /\ Len(wrHistory) < MaxCalls
    /\ \E request \in SessionSearches(wrCollection.backend) :
         \E response \in
              IF wrCollection.backend = "mssql"
              THEN {mssqlSearchByVector(wrCollection, wrTable, scan, request.Vector,
                                        request.TopK, request.Options) :
                      scan \in ArrivalOrders(wrTable)}
              ELSE postgresSearchByVector(wrCollection, wrTable, request.Vector,
                                          request.TopK, request.Options) :
            wrHistory' = Append(wrHistory, SearchCall(request, wrTable, response))
    /\ UNCHANGED <<wrCollection, wrTable, wrPc>>
    /\ UNCHANGED otherThanWrite

NextWrite == InsertRecord \/ UpsertRecord \/ UpsertOtherHandle \/ GetRecord \/ SearchSession

SpecWrite == InitWrite /\ [][NextWrite]_vars

\* What the claims say about the calls of a session.
IsWrite(call) == call.op \in {"Insert", "Upsert"}
IsSearch(call) == call.op = "SearchByVector"
IsGet(call) == call.op = "Get"

\* An Upsert of the one record r through the collection's own handle.
IsUpsertOf(call) ==
    call.op = "Upsert" /\ call.handle = wrCollection /\ Len(call.records) = 1

StoredLength(backend, row) ==
    IF backend = "mssql" THEN Len(row.vector.seq) ELSE Len(row.vector)

StoredVector(backend, row) ==
    IF backend = "mssql" THEN [i \in DOMAIN row.vector.seq |-> row.vector.seq[i].num]
    ELSE row.vector

AllOfDimension(collection, table) ==
    \A row \in table : StoredLength(collection.backend, row) = collection.dimension

\* A metadata value as a JSON decoder hands it back: integers are float64.
RECURSIVE DecodedForm(_)
DecodedForm(value) ==
    CASE value.t = "int" -> GoFloat64(value.num)
      [] value.t = "map" -> GoMap([key \in DOMAIN value.map |-> DecodedForm(value.map[key])])
      [] value.t = "slice" -> GoSlice([i \in DOMAIN value.seq |-> DecodedForm(value.seq[i])])
      [] OTHER -> value

DecodedMetadata(metadata) ==
    IF metadata = GoNil THEN GoMap(EmptyMap) ELSE DecodedForm(metadata)

\* C6: after Upsert([r1]) and Upsert([r2]) with the same ID, one row is
\* stored under the ID and Get returns r2's vector, metadata and content
\* (r2's absent content and nil metadata replace r1's), never a merge.
C6_SecondUpsertReplacesEveryField ==
    \A i \in 1..(Len(wrHistory) - 2) :
        LET first == wrHistory[i]
            second == wrHistory[i + 1]
            got == wrHistory[i + 2]
        IN (/\ IsUpsertOf(first) /\ first.err = NoError
            /\ IsUpsertOf(second) /\ second.err = NoError
            /\ first.records[1].ID = second.records[1].ID
            /\ IsGet(got) /\ got.id = second.records[1].ID)
           => /\ Cardinality({row \in second.after : row.id = got.id}) = 1
              /\ got.err = NoError
              /\ got.record.ID = second.records[1].ID
              /\ got.record.Vector = second.records[1].Vector
              /\ got.record.Metadata = DecodedMetadata(second.records[1].Metadata)
              /\ got.record.Content = second.records[1].Content

\* C6 witness: r1 carried metadata and content, r2 carries neither, and Get
\* returned r2's vector with empty metadata and no content.
C6_AbsentFieldsReplaceStoredOnes ==
    /\ Len(wrHistory) = 3
    /\ IsUpsertOf(wrHistory[1]) /\ wrHistory[1].err = NoError
    /\ IsUpsertOf(wrHistory[2]) /\ wrHistory[2].err = NoError
    /\ wrHistory[1].records[1] = Record(strA, <<0, 1>>, MetaInt, GoString(strA))
    /\ wrHistory[2].records[1] = Record(strA, <<1, 0>>, GoNil, GoNil)
    /\ IsGet(wrHistory[3]) /\ wrHistory[3].id = strA
    /\ wrHistory[3].record = Record(strA, <<1, 0>>, GoMap(EmptyMap), GoNil)

MaxBatch == 3

BatchRecords ==
    {Record(strA, <<1, 0>>, GoNil, GoNil),
     Record(strB, <<0, 1>>, MetaString, GoString(strB)),
     Record(strA, <<0, 1>>, GoNil, GoString(strA)),
     Record(strEmpty, <<1, 0>>, GoNil, GoNil),
     Record(strB, <<1>>, GoNil, GoNil)}

BatchSlices == UNION {[1..n -> BatchRecords] : n \in 0..MaxBatch}

ChunkStarts(records) ==
    {start \in 0..Len(records) : start < Len(records) /\ start % maxRowsPerStatement = 0}

Faults(backend, records) ==
    IF backend = "mssql"
    THEN {FaultAt(start, "begin", 0) : start \in ChunkStarts(records)}
         \cup {FaultAt(start, "commit", 0) : start \in ChunkStarts(records)}
         \cup {FaultAt(start, "exec", index) :
                 start \in ChunkStarts(records), index \in 1..maxRowsPerStatement}
    ELSE {FaultAt(start, "exec", 0) : start \in ChunkStarts(records)}

\* The table as an earlier Upsert of one record left it.
SeededTable(collection) ==
    writeRecords(collection, {}, <<Record(strA, <<0, 1>>, MetaInt, GoString(strA))>>,
                 writeModeUpsert, NoFault, 0).table

InitBatch ==
    /\ wrCollection \in WriteCollections
    /\ wrTable \in {{}, SeededTable(wrCollection)}
    /\ wrHistory = << >>
    /\ wrPc = "ready"
    /\ UpsertIdle
    /\ EnsureIdle
    /\ CompileIdle
    /\ FilterIdle
    /\ HeapIdle
    /\ SearchIdle

InsertBatch ==
    /\ wrPc = "ready"
    /\ \E records \in BatchSlices :
         \E fault \in {NoFault} \cup Faults(wrCollection.backend, records) :
            WriteReturned("Insert", wrCollection, records, fault,
                          writeRecords(wrCollection, wrTable, records, writeModeInsert,
                                       fault, 0))
    /\ wrPc' = "returned"
    /\ UNCHANGED wrCollection
    /\ UNCHANGED otherThanWrite

UpsertBatch ==
    /\ wrPc = "ready"
    /\ \E records \in BatchSlices :
         \E fault \in {NoFault} \cup Faults(wrCollection.backend, records) :
            WriteReturned("Upsert", wrCollection, records, fault,
                          writeRecords(wrCollection, wrTable, records, writeModeUpsert,
                                       fault, 0))
    /\ wrPc' = "returned"
    /\ UNCHANGED wrCollection
    /\ UNCHANGED otherThanWrite

NextBatch == InsertBatch \/ UpsertBatch

SpecBatch == InitBatch /\ [][NextBatch]_vars

\* The row a record is stored as.
RowOf(collection, record) ==
    StoredRow(record.ID,
              IF collection.backend = "mssql" THEN vectorJSON(record.Vector) ELSE record.Vector,
              metadataJSON(record.Metadata), contentArg(record.Content))

\* The table once every record of the prefix has been written, in order.
Applied(collection, before, prefix) ==
    {row \in before : \A i \in DOMAIN prefix : prefix[i].ID # row.id}
    \cup {RowOf(collection, prefix[i]) :
            i \in {k \in DOMAIN prefix : \A later \in (k + 1)..Len(prefix) :
                                            prefix[later].ID # prefix[k].ID}}

InvalidRecord(collection, record) ==
    record.ID = << >> \/ Len(record.Vector) # collection.dimension

\* C7: when a slice holds a record with an empty ID or a vector of the
\* wrong length, anywhere in the slice, the call fails and the table is
\* what it was before the call.
C7_InvalidRecordStoresNothing ==
    \A i \in DOMAIN wrHistory :
        LET call == wrHistory[i] IN
        (/\ IsWrite(call)
         /\ call.fault = NoFault
         /\ \E k \in DOMAIN call.records : InvalidRecord(call.handle, call.records[k]))
        => (call.err # NoError /\ call.after = call.before)

\* C7 witness: the invalid record sat in the second chunk, the call failed
\* on it, and the first chunk's records are stored all the same.
C7_FirstChunkStoredBeforeInvalidRecord ==
    \E i \in DOMAIN wrHistory :
        LET call == wrHistory[i] IN
        /\ IsWrite(call)
        /\ call.fault = NoFault
        /\ Len(call.records) > maxRowsPerStatement
        /\ InvalidRecord(call.handle, call.records[maxRowsPerStatement + 1])
        /\ call.err \in {errEmptyID, ErrDimensionMismatch}
        /\ call.before = {}
        /\ \A k \in 1..maxRowsPerStatement :
              RowOf(call.handle, call.records[k]) \in call.after

\* C8: a write that failed while writing the chunk starting at failedStart
\* left the table as the chunks before it wrote it, in slice order: every
\* earlier chunk applied in full, nothing of the failing chunk or of a
\* later one.
C8_ChunksBeforeFailureAppliedOnly ==
    \A i \in DOMAIN wrHistory :
        LET call == wrHistory[i] IN
        (IsWrite(call) /\ call.err # NoError)
        => /\ call.failedStart \in ChunkStarts(call.records)
           /\ call.err = errStorage => call.failedStart = call.fault.start
           /\ call.after = Applied(call.handle, call.before,
                                   SubSeq(call.records, 1, call.failedStart))

\* C8 witness: a slice of more than one chunk, the storage failed in its
\* second chunk, and the first chunk's records are stored on a table that
\* was empty.
C8_FailureInSecondChunkKeepsFirst ==
    \E i \in DOMAIN wrHistory :
        LET call == wrHistory[i] IN
        /\ IsWrite(call)
        /\ Len(call.records) > maxRowsPerStatement
        /\ call.fault.start = maxRowsPerStatement
        /\ call.err = errStorage
        /\ call.before = {}
        /\ call.after = {RowOf(call.handle, call.records[k]) : k \in 1..maxRowsPerStatement}
        /\ Cardinality(call.after) = maxRowsPerStatement

(***************************************************************************)
(* SpecUpsert: two Upsert calls of one record each, with the same ID, run  *)
(* concurrently on an MSSQL collection that holds no row with the ID.      *)
(* Each call is BeginTx, the UPDATE of buildUpsertQuery, its INSERT when   *)
(* @@ROWCOUNT = 0, then Commit (or Rollback on an error).  Engine rules:   *)
(* with UPDLOCK and SERIALIZABLE the UPDATE takes an update lock on the    *)
(* key range of the ID, held to the end of the transaction, whether or not *)
(* a row matched; a changed row is locked exclusively to the end of the    *)
(* transaction; a statement that meets another transaction's lock waits.   *)
(***************************************************************************)
Writers == {1, 2}

UpsertCollection == [backend |-> "mssql", dimension |-> 2, metric |-> DistanceCosine]

ConcurrentRecords ==
    {Record(strA, <<1, 0>>, GoNil, GoNil),
     Record(strA, <<0, 1>>, MetaString, GoString(strA)),
     Record(strA, <<0, 1>>, MetaInt, GoNil),
     Record(strA, <<1, 0>>, MetaString, GoString(strB))}

Writer(record, pc, rowcount, inserted, err) ==
    [record |-> record, pc |-> pc, rowcount |-> rowcount, inserted |-> inserted, err |-> err]

Lock(owner, kind, id) == [owner |-> owner, kind |-> kind, id |-> id]

HeldByOther(w, kinds, id) ==
    \E lock \in upLocks : lock.owner # w /\ lock.kind \in kinds /\ lock.id = id

RowFor(record) ==
    StoredRow(record.ID, vectorJSON(record.Vector), metadataJSON(record.Metadata),
              contentArg(record.Content))

InitUpsert ==
    /\ upTable \in {{}, {RowFor(Record(strB, <<1, 0>>, GoNil, GoNil))}}
    /\ upLocks = {}
    /\ upWriters \in {ws \in [Writers -> {Writer(r, "begin", 0, FALSE, NoError) :
                                            r \in ConcurrentRecords}] :
                        ws[1].record # ws[2].record}
    /\ EnsureIdle
    /\ CompileIdle
    /\ WriteIdle
    /\ FilterIdle
    /\ HeapIdle
    /\ SearchIdle

\* db.BeginTx, then writeBatch's checks of the record before its statement.
UpsertBeginTx ==
    \E w \in Writers :
        /\ upWriters[w].pc = "begin"
        /\ upWriters' =
             [upWriters EXCEPT ![w] =
                IF TrimSpace(@.record.ID) = << >>
                THEN [@ EXCEPT !.pc = "done", !.err = errEmptyID]
                ELSE IF validateVectorDimension(UpsertCollection.dimension, @.record.Vector)
                          # NoError
                THEN [@ EXCEPT !.pc = "done", !.err = ErrDimensionMismatch]
                ELSE IF vectorJSONError(@.record.Vector) # NoError
                THEN [@ EXCEPT !.pc = "done", !.err = errUnsupportedValue]
                ELSE [@ EXCEPT !.pc = "update"]]
        /\ UNCHANGED <<upTable, upLocks>>
        /\ UNCHANGED otherThanUpsert

\* UPDATE t WITH (hints) SET vector, metadata, content WHERE id = @p1
UpsertUpdate ==
    \E w \in Writers :
        LET id == upWriters[w].record.ID
            row == RowFor(upWriters[w].record)
            matched == {stored \in upTable : stored.id = id}
            ranged == {"UPDLOCK", "SERIALIZABLE"} \subseteq upsertLockHints
        IN /\ upWriters[w].pc = "update"
           /\ ~HeldByOther(w, {"row"}, id)
           /\ ranged => ~HeldByOther(w, {"range"}, id)
           /\ upTable' = (upTable \ matched)
                         \cup {[stored EXCEPT !.vector = row.vector,
                                              !.metadata = row.metadata,
                                              !.content = row.content] : stored \in matched}
           /\ upLocks' = upLocks
                         \cup (IF ranged THEN {Lock(w, "range", id)} ELSE {})
                         \cup (IF matched # {} THEN {Lock(w, "row", id)} ELSE {})
           /\ upWriters' = [upWriters EXCEPT ![w] =
                              [@ EXCEPT !.rowcount = Cardinality(matched),
                                        !.pc = IF matched = {} THEN "insert" ELSE "commit"]]
           /\ UNCHANGED otherThanUpsert

\* IF @@ROWCOUNT = 0 INSERT INTO t (...) VALUES (...); a duplicate key fails
\* the statement, writeBatch returns the error and writeRecords rolls back
\* (the transaction has changed nothing when it reaches the INSERT).
UpsertInsert ==
    \E w \in Writers :
        LET id == upWriters[w].record.ID
            executed == execInsertQuery(upTable, RowFor(upWriters[w].record))
        IN /\ upWriters[w].pc = "insert"
           /\ ~HeldByOther(w, {"row", "range"}, id)
           /\ IF executed.err # NoError
              THEN /\ upTable' = upTable
                   /\ upLocks' = {lock \in upLocks : lock.owner # w}
                   /\ upWriters' = [upWriters EXCEPT ![w] =
                                      [@ EXCEPT !.pc = "done", !.err = executed.err]]
              ELSE /\ upTable' = executed.table
                   /\ upLocks' = upLocks \cup {Lock(w, "row", id)}
                   /\ upWriters' = [upWriters EXCEPT ![w] =
                                      [@ EXCEPT !.pc = "commit", !.inserted = TRUE]]
           /\ UNCHANGED otherThanUpsert

\* tx.Commit
UpsertCommit ==
    \E w \in Writers :
        /\ upWriters[w].pc = "commit"
        /\ upLocks' = {lock \in upLocks : lock.owner # w}
        /\ upWriters' = [upWriters EXCEPT ![w] = [@ EXCEPT !.pc = "done"]]
        /\ UNCHANGED upTable
        /\ UNCHANGED otherThanUpsert

NextUpsert == UpsertBeginTx \/ UpsertUpdate \/ UpsertInsert \/ UpsertCommit

SpecUpsert == InitUpsert /\ [][NextUpsert]_vars

BothReturned == \A w \in Writers : upWriters[w].pc = "done"

\* C5: two concurrent MSSQL Upserts of an ID that is not stored yet: at
\* most one takes the insert branch, neither fails with a duplicate key,
\* and once both have returned one row has the ID, with vector, metadata
\* and content all of one writer's record.
C5_ConcurrentUpsertsLeaveOneWholeRow ==
    /\ ~(\A w \in Writers : upWriters[w].inserted)
    /\ \A w \in Writers : upWriters[w].err # errDuplicateKey
    /\ BothReturned =>
         /\ \A w \in Writers : upWriters[w].err = NoError
         /\ Cardinality({row \in upTable : row.id = strA}) = 1
         /\ \E w \in Writers : RowFor(upWriters[w].record) \in upTable

\* C5 witness: both calls have returned, one through the insert branch and
\* the other through the UPDATE of the row the first inserted, whose fields
\* are now the second writer's.
C5_OneInsertedOtherUpdated ==
    /\ BothReturned
    /\ upWriters[1].inserted /\ ~upWriters[2].inserted
    /\ upWriters[2].rowcount = 1
    /\ RowFor(upWriters[2].record) \in upTable
    /\ RowFor(upWriters[1].record) \notin upTable

(***************************************************************************)
(* SpecEnsure: a session of EnsureCollection and EnsureIndexes calls, one  *)
(* after the other, on one database.                                       *)
(***************************************************************************)
MaxEnsureCalls == 2

strSpacedA == <<32, 97, 32>>                            \* " a "

\* Every dimension / metric / mode on the one name, and the specs that
\* normalization changes or rejects.
EnsureSpecs ==
    {CollectionSpec(strA, d, m, mode) :
        d \in {2, 3}, m \in {"", DistanceCosine, DistanceL2},
        mode \in {EnsureStrict, EnsureAutoMigrate}}
    \cup {CollectionSpec(strSpacedA, 2, "", ""),
          CollectionSpec(strA, 3, DistanceInnerProduct, ""),
          CollectionSpec(strEmpty, 2, DistanceCosine, EnsureStrict),
          CollectionSpec(strA, 0, DistanceCosine, EnsureStrict),
          CollectionSpec(strA, 2, "bogus", EnsureStrict),
          CollectionSpec(strA, 2, DistanceCosine, "bogus")}

EnsureStores ==
    {[backend |-> b, strictByDefault |-> s] : b \in {"mssql", "postgres"}, s \in BOOLEAN}

\* What the database may hold before the session: nothing, or a table of the
\* collection's name made by hand without the optional columns (and, on
\* MSSQL, without a registry row).
LegacyTable(backend) ==
    IF backend = "mssql"
    THEN TableShape(strA, "nvarchar", "nvarchar", TRUE, "", "", 0)
    ELSE TableShape(strA, "text", "vector", TRUE, "", "", 2)

EnsureDatabases(backend) ==
    {EmptyDatabase, Database({LegacyTable(backend)}, {}, {}, TRUE)}

EnsureIndexOptions ==
    {IndexOptions(v, m) :
        v \in {NilIndexOptions, VectorIndexOptions("", ""),
               VectorIndexOptions(IndexMethodIVFFlat, DistanceL2),
               VectorIndexOptions("bogus", "")},
        m \in {NilIndexOptions, MetadataIndexOptions(FALSE)}}

\* The handles EnsureIndexes is called on: one EnsureCollection returned, or
\* an unchecked one from Collection(name, dimension, metric).
IndexHandles ==
    {Handle(strA, 2, DistanceCosine)}
    \cup {ecHistory[i].handle : i \in {i \in 1..Len(ecHistory) :
            ecHistory[i].op = "EnsureCollection" /\ ecHistory[i].err = NoError}}

EnsureReturned(spec, before, s) ==
    [op |-> "EnsureCollection", spec |-> spec, before |-> before, after |-> s.db,
     err |-> s.call.err, handle |-> s.call.handle]

IndexesReturned(handle, opts, before, r) ==
    [op |-> "EnsureIndexes", opts |-> opts, before |-> before, after |-> r.db,
     err |-> r.err, handle |-> handle]

InitEnsure ==
    /\ ecStore \in EnsureStores
    /\ ecDb \in EnsureDatabases(ecStore.backend)
    /\ ecCalls = << >>
    /\ ecHistory = << >>
    /\ FilterIdle
    /\ HeapIdle
    /\ SearchIdle
    /\ WriteIdle
    /\ CompileIdle
    /\ UpsertIdle

ensureCompleted(spec, s) ==
    /\ ecDb' = s.db
    /\ ecHistory' = Append(ecHistory, EnsureReturned(spec, ecDb, s))
    /\ UNCHANGED <<ecStore, ecCalls, otherThanEnsure>>

indexesCompleted(handle, opts, r) ==
    /\ ecDb' = r.db
    /\ ecHistory' = Append(ecHistory, IndexesReturned(handle, opts, ecDb, r))
    /\ UNCHANGED <<ecStore, ecCalls, otherThanEnsure>>

EnsureCollectionMSSQL ==
    /\ ecStore.backend = "mssql"
    /\ Len(ecHistory) < MaxEnsureCalls
    /\ \E spec \in EnsureSpecs :
          ensureCompleted(spec,
              EnsureCollection("mssql", ecStore.strictByDefault, ecDb, spec))

EnsureCollectionPostgres ==
    /\ ecStore.backend = "postgres"
    /\ Len(ecHistory) < MaxEnsureCalls
    /\ \E spec \in EnsureSpecs :
          ensureCompleted(spec,
              EnsureCollection("postgres", ecStore.strictByDefault, ecDb, spec))

EnsureIndexesMSSQL ==
    /\ ecStore.backend = "mssql"
    /\ Len(ecHistory) < MaxEnsureCalls
    /\ \E handle \in IndexHandles, opts \in EnsureIndexOptions :
          indexesCompleted(handle, opts, mssqlEnsureIndexes(ecDb, opts))

EnsureIndexesPostgres ==
    /\ ecStore.backend = "postgres"
    /\ Len(ecHistory) < MaxEnsureCalls
    /\ \E handle \in IndexHandles, opts \in EnsureIndexOptions :
          indexesCompleted(handle, opts, postgresEnsureIndexes(ecDb, handle, opts))

NextEnsure ==
    \/ EnsureCollectionMSSQL
    \/ EnsureCollectionPostgres
    \/ EnsureIndexesMSSQL
    \/ EnsureIndexesPostgres

SpecEnsure == InitEnsure /\ [][NextEnsure]_vars

IsEnsure(i) == ecHistory[i].op = "EnsureCollection"

\* The dimension and metric storage holds for a collection name: the registry
\* row on MSSQL, the vector column's type on Postgres (which keeps no metric).
PinnedDimension(backend, db, name) ==
    IF backend = "mssql"
    THEN {r.dimension : r \in {r \in db.registry : r.name = name}}
    ELSE {t.dimension : t \in tablesNamed(db, name)}

PinnedMetric(backend, db, name) ==
    IF backend = "mssql"
    THEN {r.metric : r \in {r \in db.registry : r.name = name}}
    ELSE {}

\* C11: after a successful EnsureCollection(spec), the next call, made with
\* the identical spec, succeeds, returns a handle with the same name,
\* dimension and metric, and leaves the database -- table shape, stored
\* dimension and metric -- as it found it.
C11_SecondIdenticalEnsureIsANoOp ==
    \A i \in 1..Len(ecHistory) - 1 :
        (/\ IsEnsure(i) /\ IsEnsure(i + 1)
         /\ ecHistory[i].err = NoError
         /\ ecHistory[i + 1].spec = ecHistory[i].spec)
        => /\ ecHistory[i + 1].err = NoError
           /\ ecHistory[i + 1].handle = ecHistory[i].handle
           /\ ecHistory[i + 1].after = ecHistory[i + 1].before

\* C11 witness: a collection created by the first call (with the metric left
\* to default) and ensured again with the same spec.
C11_CreatedThenEnsuredAgain ==
    /\ Len(ecHistory) = 2
    /\ IsEnsure(1) /\ IsEnsure(2)
    /\ ecHistory[1].before = EmptyDatabase
    /\ ecHistory[1].err = NoError
    /\ ecHistory[1].spec.Metric = ""
    /\ ecHistory[2].spec = ecHistory[1].spec
    /\ ecHistory[2].err = NoError
    /\ ecHistory[2].handle.metric = DistanceCosine
    /\ tableExists(ecHistory[2].after, strA)

\* The call that created the collection: a successful EnsureCollection that
\* found no table of the name.
IsCreatingCall(i) ==
    /\ IsEnsure(i)
    /\ ecHistory[i].err = NoError
    /\ ~tableExists(ecHistory[i].before, TrimSpace(ecHistory[i].spec.Name))

RequestsOtherDimensionOrMetric(i, j) ==
    /\ IsEnsure(j)
    /\ TrimSpace(ecHistory[j].spec.Name) = TrimSpace(ecHistory[i].spec.Name)
    /\ \/ ecHistory[j].spec.Dimension # ecHistory[i].spec.Dimension
       \/ defaultMetric(ecHistory[j].spec.Metric) # defaultMetric(ecHistory[i].spec.Metric)

KeepsPinned(j) ==
    LET name == TrimSpace(ecHistory[j].spec.Name)
    IN  /\ PinnedDimension(ecStore.backend, ecHistory[j].after, name)
            = PinnedDimension(ecStore.backend, ecHistory[j].before, name)
        /\ PinnedMetric(ecStore.backend, ecHistory[j].after, name)
            = PinnedMetric(ecStore.backend, ecHistory[j].before, name)

\* C12: on either backend and in either mode, an EnsureCollection that asks
\* for another dimension or another metric than the call that created the
\* collection fails with SchemaMismatch and leaves the stored dimension and
\* metric as they were.
C12_OtherDimensionOrMetricIsSchemaMismatch ==
    \A i \in 1..Len(ecHistory), j \in 1..Len(ecHistory) :
        (i < j /\ IsCreatingCall(i) /\ RequestsOtherDimensionOrMetric(i, j))
        => /\ ecHistory[j].err = ErrSchemaMismatch
           /\ KeepsPinned(j)

\* C12 witness of the divergence: on Postgres a collection created with
\* dimension 2 and the cosine metric is ensured again with dimension 2 and
\* the l2 metric, and the call succeeds with an l2 handle.
C12_PostgresAcceptsAnotherMetric ==
    /\ ecStore.backend = "postgres"
    /\ Len(ecHistory) = 2
    /\ IsCreatingCall(1)
    /\ ecHistory[1].handle = Handle(strA, 2, DistanceCosine)
    /\ IsEnsure(2)
    /\ ecHistory[2].spec.Dimension = 2
    /\ ecHistory[2].err = NoError
    /\ ecHistory[2].handle = Handle(strA, 2, DistanceL2)

(***************************************************************************)
(* SpecEnsureRace: two EnsureCollection calls for the same name on an      *)
(* empty database, interleaved statement by statement.  Neither store      *)
(* opens a transaction or takes a lock around the statements of one call.  *)
(***************************************************************************)
Callers == {1, 2}

RaceSpecs ==
    {CollectionSpec(strA, d, m, mode) :
        d \in {2, 3}, m \in {DistanceCosine, DistanceL2},
        mode \in {EnsureStrict, EnsureAutoMigrate}}

InitEnsureRace ==
    /\ ecStore \in EnsureStores
    /\ ecDb = EmptyDatabase
    /\ ecCalls \in [Callers -> {NewEnsureCall(spec) : spec \in RaceSpecs}]
    /\ ecHistory = << >>
    /\ FilterIdle
    /\ HeapIdle
    /\ SearchIdle
    /\ WriteIdle
    /\ CompileIdle
    /\ UpsertIdle

raceStepped(w, s) ==
    /\ ecDb' = s.db
    /\ ecCalls' = [ecCalls EXCEPT ![w] = s.call]
    /\ UNCHANGED <<ecStore, ecHistory, otherThanEnsure>>

RaceStep(w, pc) ==
    /\ ecCalls[w].pc = pc
    /\ raceStepped(w, ensureStep(ecStore.backend, ecStore.strictByDefault,
                                 ecDb, ecCalls[w]))

RaceNormalize == \E w \in Callers : RaceStep(w, "normalizeCollectionSpec")
RaceEnsureBaseSchema == \E w \in Callers : RaceStep(w, "ensureBaseSchema")
RaceTableExists == \E w \in Callers : RaceStep(w, "tableExists")
RaceCreateCollectionTable == \E w \in Callers : RaceStep(w, "createCollectionTable")
RaceUpsertCollectionMetadata == \E w \in Callers : RaceStep(w, "upsertCollectionMetadata")
RaceValidateCollectionSchema == \E w \in Callers : RaceStep(w, "validateCollectionSchema")
RaceReadCollectionMetadata == \E w \in Callers : RaceStep(w, "readCollectionMetadata")

NextEnsureRace ==
    \/ RaceNormalize
    \/ RaceEnsureBaseSchema
    \/ RaceTableExists
    \/ RaceCreateCollectionTable
    \/ RaceUpsertCollectionMetadata
    \/ RaceValidateCollectionSchema
    \/ RaceReadCollectionMetadata

SpecEnsureRace == InitEnsureRace /\ [][NextEnsureRace]_vars

AllReturned == \A w \in Callers : ecCalls[w].pc = "done"

Succeeded(w) == ecCalls[w].pc = "done" /\ ecCalls[w].err = NoError

HandleIsPinned(w) ==
    /\ PinnedDimension(ecStore.backend, ecDb, ecCalls[w].handle.name)
           = {ecCalls[w].handle.dimension}
    /\ ecStore.backend = "mssql"
           => PinnedMetric(ecStore.backend, ecDb, ecCalls[w].handle.name)
                  = {ecCalls[w].handle.metric}

\* C13: once both concurrent calls have returned, every successful one holds
\* a handle whose dimension (and, where storage keeps one, metric) is the one
\* pinned in storage; calls that asked for different dimensions have not
\* both succeeded; calls with identical specs have both succeeded.
C13_ConcurrentEnsuresAgreeWithStorage ==
    AllReturned =>
        /\ \A w \in Callers : Succeeded(w) => HandleIsPinned(w)
        /\ \A v \in Callers, w \in Callers :
              ecCalls[v].spec.Dimension # ecCalls[w].spec.Dimension
                  => ~(Succeeded(v) /\ Succeeded(w))
        /\ \A v \in Callers, w \in Callers :
              ecCalls[v].spec = ecCalls[w].spec => Succeeded(v) /\ Succeeded(w)

\* C13 witness of the divergence: on MSSQL both calls have succeeded, one
\* with a handle of dimension 2 and one with a handle of dimension 3, and the
\* registry pins only one of them.
C13_BothSucceededWithDifferentDimensions ==
    /\ ecStore.backend = "mssql"
    /\ AllReturned
    /\ Succeeded(1) /\ Succeeded(2)
    /\ ecCalls[1].handle.dimension = 2
    /\ ecCalls[2].handle.dimension = 3
    /\ PinnedDimension("mssql", ecDb, strA) = {3}

(***************************************************************************)
(* SpecCompile: CompileFilterSQL, compileMSSQLFilterSQL and matchesFilter  *)
(* applied to one filter and to a second filter related to it: the same    *)
(* filter with its field references trimmed, or a filter of the same shape *)
(* with other values of the same types.                                    *)
(***************************************************************************)
MinStartArg == 0 - 1
MaxStartArg == 3

strSpacedId == <<32, 105, 100, 32>>                     \* " id "
strSpacedK == <<32, 107, 32>>                           \* " k "
strBlank == <<32>>                                      \* " "
strQuote == <<39, 97>>                                  \* "'a"

CompileFields ==
    {Column(idColumn), Column(strSpacedId), Column(strBogus), Column(strBlank),
     Metadata(<<strK>>), Metadata(<<strSpacedK>>), Metadata(<<strK, strBlank>>),
     Metadata(<< >>)}

CompileValues ==
    {GoString(strA), GoString(strQuote), GoInt(5), GoFloat64(10), GoBool(TRUE),
     GoBool(FALSE), GoNil, GoSlice(<<GoInt(5)>>)}

\* A NaN is handed to the compilers only: the evaluator's comparisons on it
\* are not modelled.
UnencodableValues == {GoFloat64(Float64.nan)}

CompileLeaves ==
    {Eq(f, v) : f \in CompileFields, v \in CompileValues}
    \cup {Gt(f, v) : f \in {Column(idColumn), Metadata(<<strK>>), Metadata(<<strSpacedK>>)},
                     v \in CompileValues}
    \cup {Lt(Metadata(<<strK>>), v) : v \in {GoString(strA), GoInt(5)}}
    \cup {Exists(f) : f \in CompileFields}
    \cup {In(f, vs) : f \in {Column(idColumn), Column(strSpacedId), Metadata(<<strK>>)},
                      vs \in {<< >>, <<GoString(strA), GoString(strQuote)>>,
                              <<GoString(strQuote), GoString(strA)>>,
                              <<GoString(strA), GoInt(5)>>,
                              <<GoString(strA), GoNil>>}}

CompileSiblings ==
    {Eq(Column(idColumn), GoString(strA)),
     Eq(Metadata(<<strK>>), GoNil),
     Gt(Metadata(<<strSpacedK>>), GoInt(5)),
     Exists(Metadata(<<strK>>))}

MalformedFilters ==
    {And(<< >>), Or(<< >>), Not(NilFilter), And(<<NilFilter>>)}

CompileFilters ==
    {NilFilter}
    \cup CompileLeaves
    \cup {Eq(Metadata(<<strK>>), v) : v \in UnencodableValues}
    \cup {In(Metadata(<<strK>>), <<GoInt(5), v>>) : v \in UnencodableValues \cup {GoFloat64(10)}}
    \cup MalformedFilters
    \cup {Not(f) : f \in CompileSiblings}
    \cup {And(<<f, g>>) : f \in CompileSiblings,
                          g \in CompileSiblings \cup MalformedFilters
                                \cup {Eq(Column(strSpacedId), GoString(strQuote)),
                                      Eq(Column(strBogus), GoString(strA))}}
    \cup {Or(<<f, Not(g)>>) : f \in CompileSiblings, g \in CompileSiblings}

CompileRecords ==
    {[ID |-> strA, Vector |-> <<1, 0>>, Metadata |-> GoMap(EmptyMap), Content |-> GoNil],
     [ID |-> strB, Vector |-> <<1, 0>>,
      Metadata |-> GoMap([key \in {strK} |-> GoString(strA)]), Content |-> GoString(strA)],
     [ID |-> strA, Vector |-> <<1, 0>>,
      Metadata |-> GoMap([key \in {strK} |-> GoFloat64(10)]), Content |-> GoNil]}

\* The reference NormalizeFieldRef would return, or the reference itself
\* when it is rejected.
TrimmedRef(ref) == NormalizeFieldRef(ref).ref

RECURSIVE TrimFieldRefs(_)
TrimFieldRefs(filter) ==
    CASE filter.op \in {"Eq", "In", "Gt", "Lt", "Exists"} ->
           [filter EXCEPT !.Field = TrimmedRef(filter.Field)]
      [] filter.op \in {"And", "Or"} ->
           [filter EXCEPT !.Children =
               [i \in 1..Len(filter.Children) |-> TrimFieldRefs(filter.Children[i])]]
      [] filter.op = "Not" -> [filter EXCEPT !.Child = TrimFieldRefs(filter.Child)]
      [] OTHER -> filter

\* The dynamic type of a filter value, element types included.
RECURSIVE TypeOf(_)
TypeOf(value) ==
    CASE value.t = "slice" -> <<"slice", [i \in 1..Len(value.seq) |-> TypeOf(value.seq[i])]>>
      [] value.t = "map" -> <<"map", [key \in DOMAIN value.map |-> TypeOf(value.map[key])]>>
      [] OTHER -> <<value.t>>

\* Same tree shape, same field references, values of the same types.
RECURSIVE SameShape(_, _)
SameShape(f, g) ==
    /\ f.op = g.op
    /\ CASE f.op \in {"Eq", "Gt", "Lt"} ->
              f.Field = g.Field /\ TypeOf(f.Value) = TypeOf(g.Value)
         [] f.op = "In" ->
              /\ f.Field = g.Field
              /\ Len(f.Values) = Len(g.Values)
              /\ \A i \in 1..Len(f.Values) : TypeOf(f.Values[i]) = TypeOf(g.Values[i])
         [] f.op = "Exists" -> f.Field = g.Field
         [] f.op \in {"And", "Or"} ->
              /\ Len(f.Children) = Len(g.Children)
              /\ \A i \in 1..Len(f.Children) : SameShape(f.Children[i], g.Children[i])
         [] f.op = "Not" -> SameShape(f.Child, g.Child)
         [] OTHER -> TRUE

RECURSIVE HasUnencodableValue(_)
HasUnencodableValue(filter) ==
    CASE filter.op \in {"Eq", "Gt", "Lt"} -> jsonMarshalFails(filter.Value)
      [] filter.op = "In" -> \E i \in 1..Len(filter.Values) : jsonMarshalFails(filter.Values[i])
      [] filter.op \in {"And", "Or"} ->
           \E i \in 1..Len(filter.Children) : HasUnencodableValue(filter.Children[i])
      [] filter.op = "Not" -> HasUnencodableValue(filter.Child)
      [] OTHER -> FALSE

\* What a compiler returned, with the statement as its text.
Returned(r) ==
    [err |-> r.err, sql |-> sqlText(r.sql), args |-> r.args, nextArg |-> r.nextArg]

InitCompile ==
    /\ cpFilter \in CompileFilters
    /\ cpOther \in {g \in CompileFilters :
                       g = TrimFieldRefs(cpFilter) \/ SameShape(cpFilter, g)}
    /\ cpStart \in MinStartArg..MaxStartArg
    /\ cpRecord \in CompileRecords
    /\ cpFull = << >>
    /\ cpRestricted = << >>
    /\ cpMatched = << >>
    /\ FilterIdle
    /\ HeapIdle
    /\ SearchIdle
    /\ WriteIdle
    /\ UpsertIdle
    /\ EnsureIdle

CompileFull ==
    /\ cpFull = << >>
    /\ cpFull' = <<Returned(CompileFilterSQL(cpFilter, filterConfig, cpStart)),
                   Returned(CompileFilterSQL(cpOther, filterConfig, cpStart))>>
    /\ UNCHANGED <<cpFilter, cpOther, cpStart, cpRecord, cpRestricted, cpMatched>>
    /\ UNCHANGED otherThanCompile

CompileRestricted ==
    /\ cpRestricted = << >>
    /\ cpRestricted' = <<Returned(compileMSSQLFilterSQL(cpFilter, cpStart)),
                         Returned(compileMSSQLFilterSQL(cpOther, cpStart))>>
    /\ UNCHANGED <<cpFilter, cpOther, cpStart, cpRecord, cpFull, cpMatched>>
    /\ UNCHANGED otherThanCompile

Evaluate ==
    /\ cpMatched = << >>
    /\ ~HasUnencodableValue(cpFilter) /\ ~HasUnencodableValue(cpOther)
    /\ cpMatched' = <<matchesFilter(cpFilter, cpRecord), matchesFilter(cpOther, cpRecord)>>
    /\ UNCHANGED <<cpFilter, cpOther, cpStart, cpRecord, cpFull, cpRestricted>>
    /\ UNCHANGED otherThanCompile

NextCompile == CompileFull \/ CompileRestricted \/ Evaluate

SpecCompile == InitCompile /\ [][NextCompile]_vars

StartArg == IF cpStart < 1 THEN 1 ELSE cpStart

\* A successful compile that bound n arguments wrote the placeholders
\* s .. s+n-1 once each in reading order and returned nextArg = s + n; a
\* failed one returned no text, no arguments and nextArg = s.
NumberedFrom(r, s) ==
    IF r.err = NoError
    THEN /\ placeholdersOf(r.sql) = [i \in 1..Len(r.args) |-> s + i - 1]
         /\ r.nextArg = s + Len(r.args)
    ELSE /\ r.sql = << >>
         /\ r.args = << >>
         /\ r.nextArg = s

\* C17: for every filter and start offset s (below 1 taken as 1), both
\* compilers number their placeholders s .. s+n-1 in reading order, in step
\* with the argument list, and return nextArg = s + n; a failed compile
\* returns no SQL, no arguments and nextArg = s.
C17_PlaceholdersNumberedFromStart ==
    /\ cpFull # << >> => NumberedFrom(cpFull[1], StartArg)
    /\ cpRestricted # << >> => NumberedFrom(cpRestricted[1], StartArg)

\* C17 witness: from offset 3 both compilers have compiled a two-child And;
\* the full compiler bound two arguments ($3, $4), the restricted one three
\* (@p3 the metadata path, @p4, @p5).
C17_CompiledFromOffsetThree ==
    /\ cpStart = 3
    /\ cpFilter = And(<<Gt(Metadata(<<strSpacedK>>), GoInt(5)),
                        Eq(Column(idColumn), GoString(strA))>>)
    /\ cpFull # << >> /\ cpRestricted # << >>
    /\ cpFull[1].err = NoError /\ cpFull[1].nextArg = 5
    /\ cpRestricted[1].err = NoError /\ cpRestricted[1].nextArg = 6
    /\ placeholdersOf(cpRestricted[1].sql) = <<3, 4, 5>>

BothCompiled(pair) == pair[1].err = NoError /\ pair[2].err = NoError

SpelledWithWhitespace == cpOther = TrimFieldRefs(cpFilter) /\ cpOther # cpFilter

\* C16: a filter whose field references carry surrounding whitespace is
\* treated exactly like the filter with the trimmed references by all three
\* consumers: CompileFilterSQL and compileMSSQLFilterSQL return the same
\* error, text and arguments for both spellings, and matchesFilter returns
\* the same verdict for both on every record.
C16_WhitespaceSpellingTreatedAsTrimmed ==
    SpelledWithWhitespace =>
        /\ cpFull # << >> => cpFull[1] = cpFull[2]
        /\ cpRestricted # << >> => cpRestricted[1] = cpRestricted[2]
        /\ cpMatched # << >> => cpMatched[1] = cpMatched[2]

\* C16, the two consumers that trim: compileMSSQLFilterSQL and matchesFilter
\* treat both spellings alike.
C16_RestrictedAndEvaluatorTrim ==
    SpelledWithWhitespace =>
        /\ cpRestricted # << >> => cpRestricted[1] = cpRestricted[2]
        /\ cpMatched # << >> => cpMatched[1] = cpMatched[2]

\* C16 witness: Eq(Column(" id "), "a") was rejected by CompileFilterSQL with
\* InvalidFilter while Eq(Column("id"), "a") compiled; compileMSSQLFilterSQL
\* compiled both to one statement and matchesFilter gave one verdict.
C16_FullCompilerRejectsSpacedColumn ==
    /\ cpFilter = Eq(Column(strSpacedId), GoString(strA))
    /\ cpOther = Eq(Column(idColumn), GoString(strA))
    /\ cpFull # << >> /\ cpRestricted # << >> /\ cpMatched # << >>
    /\ cpFull[1].err = ErrInvalidFilter
    /\ cpFull[2].err = NoError
    /\ cpRestricted[1].err = NoError
    /\ cpRestricted[1] = cpRestricted[2]
    /\ cpMatched[1] = cpMatched[2]

IsMSSQLEnsureIndexes(i) ==
    ecStore.backend = "mssql" /\ ecHistory[i].op = "EnsureIndexes"

NoIndexRequested(opts) ==
    opts.Vector = NilIndexOptions /\ opts.Metadata = NilIndexOptions

FilteredCollections ==
    {[backend |-> b, dimension |-> 2, metric |-> DistanceCosine] :
        b \in {"mssql", "postgres"}}

FilteredMetadata ==
    {JObject(EmptyMap), JObject([key \in {strK} |-> JString(strA)]),
     JObject([key \in {strK} |-> JNull])}

FilteredRows(backend, id) ==
    {StoredRow(id, IF backend = "mssql" THEN vectorJSON(v) ELSE v, m, SqlNull) :
        v \in {<<1, 0>>}, m \in FilteredMetadata}

FilteredTables(backend) ==
    {{}}
    \cup {{a} : a \in FilteredRows(backend, strA)}
    \cup {{a, b} : a \in FilteredRows(backend, strA), b \in FilteredRows(backend, strB)}

\* Leaves: compiled by both compilers, refused by the restricted compiler
\* only (pushdown-unsupported), an empty And/Or, an unknown column.
PushableLeaf == Eq(Metadata(<<strK>>), GoString(strA))
UnpushableLeaf == Eq(Metadata(<<strK>>), GoNil)
EmptyLogicals == {And(<< >>), Or(<< >>)}
UnknownColumnLeaves ==
    {Eq(Column(strBogus), GoString(strA)), Exists(Column(strBogus)),
     In(Column(strBogus), <<GoString(strA)>>), Gt(Column(strBogus), GoInt(5))}

FilteredFilters ==
    LET bad == EmptyLogicals \cup UnknownColumnLeaves
        siblings == {PushableLeaf, UnpushableLeaf, Not(UnpushableLeaf)}
    IN {NilFilter, PushableLeaf, UnpushableLeaf, Not(UnpushableLeaf)}
       \cup bad
       \cup {Not(f) : f \in bad}
       \cup {And(<<s, f>>) : s \in siblings, f \in bad}
       \cup {And(<<f, s>>) : s \in siblings, f \in bad}
       \cup {Or(<<s, f>>) : s \in siblings, f \in bad}
       \cup {Or(<<s, Not(And(<<s, f>>))>>) : s \in {UnpushableLeaf}, f \in bad}

RECURSIVE HasEmptyLogical(_)
HasEmptyLogical(filter) ==
    CASE filter.op \in {"And", "Or"} ->
           \/ filter.Children = << >>
           \/ \E i \in 1..Len(filter.Children) : HasEmptyLogical(filter.Children[i])
      [] filter.op = "Not" -> HasEmptyLogical(filter.Child)
      [] OTHER -> FALSE

KnownColumns == {idColumn, contentColumn}

RECURSIVE ReferencesUnknownColumn(_)
ReferencesUnknownColumn(filter) ==
    CASE filter.op \in {"Eq", "In", "Gt", "Lt", "Exists"} ->
           /\ filter.Field.Kind = FieldColumn
           /\ TrimSpace(filter.Field.Name) \notin KnownColumns
      [] filter.op \in {"And", "Or"} ->
           \E i \in 1..Len(filter.Children) : ReferencesUnknownColumn(filter.Children[i])
      [] filter.op = "Not" -> ReferencesUnknownColumn(filter.Child)
      [] OTHER -> FALSE

InitFiltered ==
    /\ srCollection \in FilteredCollections
    /\ srTable \in FilteredTables(srCollection.backend)
    /\ srRequest = NoRequest
    /\ srResponse = NoResponse
    /\ srPc = "ready"
    /\ FilterIdle
    /\ HeapIdle
    /\ WriteIdle
    /\ UpsertIdle
    /\ EnsureIdle
    /\ CompileIdle

filteredReturned(request) ==
    /\ srRequest' = request
    /\ srPc' = "returned"
    /\ UNCHANGED <<srCollection, srTable>>
    /\ UNCHANGED otherThanSearch

CountFilteredMSSQL ==
    /\ srPc = "ready"
    /\ srCollection.backend = "mssql"
    /\ \E filter \in FilteredFilters, scan \in ArrivalOrders(srTable) :
         /\ srResponse' = mssqlCount(srTable, scan, filter)
         /\ filteredReturned(CountRequest(filter))

CountFilteredPostgres ==
    /\ srPc = "ready"
    /\ srCollection.backend = "postgres"
    /\ \E filter \in FilteredFilters :
         /\ srResponse' \in postgresCount(srTable, filter)
         /\ filteredReturned(CountRequest(filter))

SearchFilteredMSSQL ==
    /\ srPc = "ready"
    /\ srCollection.backend = "mssql"
    /\ \E filter \in FilteredFilters, topK \in 1..MaxSearchTopK,
          scan \in ArrivalOrders(srTable) :
         /\ srResponse' = mssqlSearchByVector(srCollection, srTable, scan, <<1, 0>>, topK,
                                              SearchOptions(filter, NoThreshold))
         /\ filteredReturned(SearchRequest(<<1, 0>>, topK, SearchOptions(filter, NoThreshold)))

SearchFilteredPostgres ==
    /\ srPc = "ready"
    /\ srCollection.backend = "postgres"
    /\ \E filter \in FilteredFilters, topK \in 1..MaxSearchTopK :
         /\ srResponse' \in postgresSearchByVector(srCollection, srTable, <<1, 0>>, topK,
                                                   SearchOptions(filter, NoThreshold))
         /\ filteredReturned(SearchRequest(<<1, 0>>, topK, SearchOptions(filter, NoThreshold)))

NextFiltered ==
    \/ CountFilteredMSSQL
    \/ CountFilteredPostgres
    \/ SearchFilteredMSSQL
    \/ SearchFilteredPostgres

SpecFiltered == InitFiltered /\ [][NextFiltered]_vars

\* C14: a Count or SearchByVector whose filter has an And or Or without
\* children anywhere in its tree fails with InvalidFilter, on both backends
\* and on both MSSQL paths, whatever the siblings and the stored records.
C14_EmptyLogicalAlwaysInvalidFilter ==
    (srPc = "returned" /\ HasEmptyLogical(RequestFilter)) =>
        srResponse.err = ErrInvalidFilter

\* C14 where the statement does hold: on Postgres, and on MSSQL whenever
\* the restricted compiler did not answer pushdown-unsupported.
C14_EmptyLogicalInvalidFilterWhenCompiled ==
    (/\ srPc = "returned"
     /\ HasEmptyLogical(RequestFilter)
     /\ srResponse.compileErr # errFilterPushdownUnsupported) =>
        srResponse.err = ErrInvalidFilter

\* C14 witness: on MSSQL, Count(And(Eq(metadata k, nil), And())) over a
\* table holding one record has gone through the streaming fallback and
\* returned 0 without an error.
C14_EmptyAndSkippedBehindFalseSibling ==
    /\ srPc = "returned"
    /\ srCollection.backend = "mssql"
    /\ srRequest = CountRequest(And(<<UnpushableLeaf, And(<< >>)>>))
    /\ Cardinality(srTable) = 1
    /\ srResponse.err = NoError
    /\ srResponse.count = 0
    /\ srResponse.ranStreaming

\* C15: a Count or SearchByVector whose filter references a column other
\* than id and content fails with an error, on both backends and on both
\* MSSQL paths, wherever the reference sits and whatever records are stored.
C15_UnknownColumnAlwaysFails ==
    (srPc = "returned" /\ ReferencesUnknownColumn(RequestFilter)) =>
        srResponse.err # NoError

\* C15 where the statement does hold: on Postgres, and on MSSQL whenever
\* the restricted compiler did not answer pushdown-unsupported, the error
\* is InvalidFilter.
C15_UnknownColumnInvalidFilterWhenCompiled ==
    (/\ srPc = "returned"
     /\ ReferencesUnknownColumn(RequestFilter)
     /\ srResponse.compileErr # errFilterPushdownUnsupported) =>
        srResponse.err = ErrInvalidFilter

\* C15 witness: on MSSQL, SearchByVector with And(Eq(metadata k, nil),
\* Eq(Column("bogus"), "a")) over a table holding two records has gone
\* through the streaming fallback and returned no result and no error.
C15_UnknownColumnSkippedBehindFalseSibling ==
    /\ srPc = "returned"
    /\ srCollection.backend = "mssql"
    /\ srRequest.op = "SearchByVector"
    /\ srRequest.Options.Filter = And(<<UnpushableLeaf, Eq(Column(strBogus), GoString(strA))>>)
    /\ Cardinality(srTable) = 2
    /\ srResponse.err = NoError
    /\ srResponse.results = << >>
    /\ srResponse.ranStreaming

\* The error a recorded call returned.
ReturnedError(call) ==
    IF call.op = "SearchByVector" THEN call.response.err ELSE call.err

EnumeratedKinds == {ErrNotFound, ErrDimensionMismatch, ErrSchemaMismatch, ErrInvalidFilter}

\* Errors that come from the storage engine or the driver.
StorageErrors == {errStorage, errDuplicateKey, errCardinality, errPgVector}

\* Errors the collections make themselves with fmt.Errorf or pass on from
\* encoding/json, wrapping none of the four kinds.
PlainErrors == {errEmptyID, errTopK, errUnsupportedValue}

\* C20: every error a Collection operation returned matches one of the
\* kinds NotFound, DimensionMismatch, SchemaMismatch, InvalidFilter, or is a
\* storage error; the errors for an empty record ID and for topK <= 0
\* included.
C20_EveryErrorIsAKindOrStorageError ==
    \A i \in 1..Len(wrHistory) :
        ReturnedError(wrHistory[i]) \in {NoError} \cup EnumeratedKinds \cup StorageErrors

\* C20, what the operations do return: a kind, a storage error, or one of
\* the plain errors.
C20_EveryErrorIsAKindStorageOrPlainError ==
    \A i \in 1..Len(wrHistory) :
        ReturnedError(wrHistory[i])
            \in {NoError} \cup EnumeratedKinds \cup StorageErrors \cup PlainErrors

\* C20 witness: an Upsert of a record whose ID is blank has returned "record
\* id is empty" and a SearchByVector with topK = 0 has returned "topK must
\* be > 0"; neither matches any of the four kinds.
C20_EmptyIDAndTopKErrorsArePlain ==
    /\ Len(wrHistory) >= 2
    /\ wrHistory[1].op = "Upsert"
    /\ wrHistory[1].records[1].ID = strSpace
    /\ wrHistory[1].err = errEmptyID
    /\ wrHistory[2].op = "SearchByVector"
    /\ wrHistory[2].request.TopK = 0
    /\ wrHistory[2].response.err = errTopK
    /\ {errEmptyID, errTopK} \cap (EnumeratedKinds \cup StorageErrors) = {}

(***************************************************************************)
(* SpecMetric: the points where a handle's metric is used -- the distance  *)
(* function, the two search planners and the score function -- on handles  *)
(* made by Collection(name, dimension, metric), whose metric is not        *)
(* checked.                                                                *)
(***************************************************************************)
strManhattan == "manhattan"
KnownMetrics == {DistanceCosine, DistanceL2, DistanceInnerProduct}
HandleMetrics == KnownMetrics \cup {"", strManhattan}

MetricCollections ==
    {[backend |-> b, dimension |-> 2, metric |-> m] :
        b \in {"mssql", "postgres"}, m \in HandleMetrics}

MetricVectors == {<<1, 0>>, <<0, 1>>, <<1, 1>>}
MetricDistances == {0, ToFixed(1) \div 2, ToFixed(1), ToFixed(2)}

DistanceRequest(metric, query, candidate) ==
    [op |-> "distanceBetween", metric |-> metric, query |-> query, candidate |-> candidate]
ScoreRequest(metric, distance) ==
    [op |-> "ScoreFromDistance", metric |-> metric, distance |-> distance]

\* What a call of a function without an error result hands back.
Scored(score) == [err |-> NoError, score |-> score]

InitMetric ==
    /\ srCollection \in MetricCollections
    /\ srTable \in FilteredTables(srCollection.backend)
    /\ srRequest = NoRequest
    /\ srResponse = NoResponse
    /\ srPc = "ready"
    /\ FilterIdle
    /\ HeapIdle
    /\ WriteIdle
    /\ UpsertIdle
    /\ EnsureIdle
    /\ CompileIdle

DistanceBetween ==
    /\ srPc = "ready"
    /\ srCollection.backend = "mssql"
    /\ \E query \in MetricVectors, candidate \in MetricVectors :
         /\ srResponse' = distanceBetween(defaultMetric(srCollection.metric), query, candidate)
         /\ filteredReturned(DistanceRequest(defaultMetric(srCollection.metric),
                                             query, candidate))

Score ==
    /\ srPc = "ready"
    /\ \E distance \in MetricDistances :
         /\ srResponse' = Scored(ScoreFromDistance(defaultMetric(srCollection.metric), distance))
         /\ filteredReturned(ScoreRequest(defaultMetric(srCollection.metric), distance))

SearchMetricMSSQL ==
    /\ srPc = "ready"
    /\ srCollection.backend = "mssql"
    /\ \E filter \in {NilFilter, PushableLeaf, UnpushableLeaf},
          scan \in ArrivalOrders(srTable) :
         /\ srResponse' = mssqlSearchByVector(srCollection, srTable, scan, <<1, 0>>, 1,
                                              SearchOptions(filter, NoThreshold))
         /\ filteredReturned(SearchRequest(<<1, 0>>, 1, SearchOptions(filter, NoThreshold)))

SearchMetricPostgres ==
    /\ srPc = "ready"
    /\ srCollection.backend = "postgres"
    /\ \E filter \in {NilFilter, PushableLeaf, UnpushableLeaf} :
         /\ srResponse' \in postgresSearchByVector(srCollection, srTable, <<1, 0>>, 1,
                                                   SearchOptions(filter, NoThreshold))
         /\ filteredReturned(SearchRequest(<<1, 0>>, 1, SearchOptions(filter, NoThreshold)))

NextMetric == DistanceBetween \/ Score \/ SearchMetricMSSQL \/ SearchMetricPostgres

SpecMetric == InitMetric /\ [][NextMetric]_vars

UsesUnknownMetric ==
    srPc = "returned" /\ defaultMetric(srCollection.metric) \notin KnownMetrics

\* C21: every use of a metric outside {cosine, l2, inner_product} on an
\* existing handle -- distance computation, search planning on either
\* backend, score computation -- fails with SchemaMismatch.
C21_UnknownMetricAlwaysSchemaMismatch ==
    UsesUnknownMetric => srResponse.err = ErrSchemaMismatch

\* C21 without the score function: distanceBetween and SearchByVector on
\* both backends fail with SchemaMismatch for an unknown metric, whatever
\* the filter and the stored records.
C21_UnknownMetricSchemaMismatchExceptScore ==
    (UsesUnknownMetric /\ srRequest.op # "ScoreFromDistance") =>
        srResponse.err = ErrSchemaMismatch

\* C21 witness: ScoreFromDistance("manhattan", 0.5) has returned -0.5, the
\* inner-product formula's value, and no error.
C21_ScoreFallsBackToInnerProduct ==
    /\ srPc = "returned"
    /\ srRequest = ScoreRequest(strManhattan, ToFixed(1) \div 2)
    /\ srResponse.err = NoError
    /\ srResponse.score = ScoreFromDistance(DistanceInnerProduct, ToFixed(1) \div 2)
    /\ srResponse.score = 0 - (ToFixed(1) \div 2)

(***************************************************************************)
(* SpecDelete: sessions of single-record Insert and Upsert, Delete by ID   *)
(* list and Get on one collection of either backend.                       *)
(***************************************************************************)
MaxDeleteCalls == 4

DeleteSessionRecords ==
    {Record(strA, <<1, 0>>, GoNil, GoNil),
     Record(strA, <<0, 1>>, GoMap([key \in {strK} |-> GoString(strA)]), GoString(strB)),
     Record(strB, <<1, 0>>, GoNil, GoString(strA))}

DeleteIDLists == {<< >>, <<strA>>, <<strB, strA>>, <<strC>>}

DeleteCall(ids, before, deleted) ==
    [op |-> "Delete", ids |-> ids, err |-> deleted.err, count |-> deleted.count,
     before |-> before, after |-> deleted.table]

InsertInSession ==
    /\ wrPc = "ready"
    /\ Len(wrHistory) < MaxDeleteCalls
    /\ \E record \in DeleteSessionRecords :
         WriteReturned("Insert", wrCollection, <<record>>, NoFault,
                       writeRecords(wrCollection, wrTable, <<record>>, writeModeInsert,
                                    NoFault, 0))
    /\ UNCHANGED <<wrCollection, wrPc>>
    /\ UNCHANGED otherThanWrite

UpsertInSession ==
    /\ wrPc = "ready"
    /\ Len(wrHistory) < MaxDeleteCalls
    /\ \E record \in DeleteSessionRecords :
         WriteReturned("Upsert", wrCollection, <<record>>, NoFault,
                       writeRecords(wrCollection, wrTable, <<record>>, writeModeUpsert,
                                    NoFault, 0))
    /\ UNCHANGED <<wrCollection, wrPc>>
    /\ UNCHANGED otherThanWrite

DeleteInSession ==
    /\ wrPc = "ready"
    /\ Len(wrHistory) < MaxDeleteCalls
    /\ \E ids \in DeleteIDLists :
         LET deleted == deleteRecords(wrCollection, wrTable, ids) IN
         /\ wrTable' = deleted.table
         /\ wrHistory' = Append(wrHistory, DeleteCall(ids, wrTable, deleted))
    /\ UNCHANGED <<wrCollection, wrPc>>
    /\ UNCHANGED otherThanWrite

GetInSession ==
    /\ wrPc = "ready"
    /\ Len(wrHistory) < MaxDeleteCalls
    /\ \E id \in {strA, strB} :
         wrHistory' = Append(wrHistory, GetCall(id, getRecord(wrCollection, wrTable, id)))
    /\ UNCHANGED <<wrCollection, wrTable, wrPc>>
    /\ UNCHANGED otherThanWrite

NextDelete == InsertInSession \/ UpsertInSession \/ DeleteInSession \/ GetInSession

SpecDelete == InitWrite /\ [][NextDelete]_vars

\* Call j settled the fate of id: a successful write of a record with that
\* ID, or a successful Delete of a list holding it.
WroteID(j, id) ==
    /\ IsWrite(wrHistory[j])
    /\ wrHistory[j].err = NoError
    /\ wrHistory[j].records[1].ID = id
RemovedID(j, id) ==
    /\ wrHistory[j].op = "Delete"
    /\ wrHistory[j].err = NoError
    /\ id \in idsOf(wrHistory[j].ids)

\* The last call before call i that wrote or removed id; 0 when none did.
LastTouch(i, id) ==
    LET touches == {j \in 1..(i - 1) : WroteID(j, id) \/ RemovedID(j, id)} IN
    IF touches = {} THEN 0 ELSE CHOOSE j \in touches : \A k \in touches : k <= j

GetAgreesWithHistory(i) ==
    LET got == wrHistory[i]
        last == LastTouch(i, got.id)
    IN IF last = 0 \/ RemovedID(last, got.id)
       THEN got.err = ErrNotFound
       ELSE /\ got.err = NoError
            /\ got.record.ID = got.id
            /\ got.record.Vector = wrHistory[last].records[1].Vector
            /\ got.record.Content = wrHistory[last].records[1].Content
            /\ got.record.Metadata = DecodedMetadata(wrHistory[last].records[1].Metadata)

\* C22: after any sequence of Insert, Upsert and Delete calls, Get(id)
\* returns NotFound exactly when the ID was never written or was deleted
\* after its last successful write, and otherwise returns the record of the
\* last successful write of that ID (its metadata as decoded from JSON).
C22_GetFollowsLastWriteOrDelete ==
    \A i \in 1..Len(wrHistory) : IsGet(wrHistory[i]) => GetAgreesWithHistory(i)

\* C22 witness: a record was written, deleted, inserted again with other
\* fields, and Get returned the reinserted record.
C22_DeletedThenRewrittenThenRead ==
    /\ Len(wrHistory) = 4
    /\ WroteID(1, strA)
    /\ RemovedID(2, strA) /\ wrHistory[2].count = 1
    /\ WroteID(3, strA) /\ wrHistory[3].op = "Insert"
    /\ wrHistory[3].records[1] # wrHistory[1].records[1]
    /\ IsGet(wrHistory[4]) /\ wrHistory[4].id = strA
    /\ wrHistory[4].err = NoError
    /\ wrHistory[4].record.Vector = wrHistory[3].records[1].Vector

\* A well-formed filter: every And/Or has children, none of them nil, every
\* Not has a child, every In has values.
RECURSIVE WellFormedFilter(_)
WellFormedFilter(filter) ==
    CASE filter.op \in {"And", "Or"} ->
           /\ Len(filter.Children) > 0
           /\ \A i \in 1..Len(filter.Children) :
                 filter.Children[i] # NilFilter /\ WellFormedFilter(filter.Children[i])
      [] filter.op = "Not" -> filter.Child # NilFilter /\ WellFormedFilter(filter.Child)
      [] filter.op = "In" -> Len(filter.Values) > 0
      [] OTHER -> TRUE

KnownField(ref) ==
    /\ NormalizeFieldRef(ref).err = NoError
    /\ ref.Kind = FieldColumn => TrimSpace(ref.Name) \in KnownColumns

RECURSIVE FieldsKnown(_)
FieldsKnown(filter) ==
    CASE filter.op \in {"Eq", "In", "Gt", "Lt", "Exists"} -> KnownField(filter.Field)
      [] filter.op \in {"And", "Or"} ->
           \A i \in 1..Len(filter.Children) : FieldsKnown(filter.Children[i])
      [] filter.op = "Not" -> FieldsKnown(filter.Child)
      [] OTHER -> TRUE

IsNumericValue(value) == value.t \in {"int", "float64"}
IsScalarValue(value) == value.t \in {"string", "bool"} \/ IsNumericValue(value)

\* The leaves the claim lists as refused.
RefusedLeaf(leaf) ==
    IF leaf.Field.Kind = FieldColumn
    THEN CASE leaf.op \in {"Eq", "Gt", "Lt"} -> leaf.Value.t # "string"
           [] leaf.op = "In" -> \E i \in 1..Len(leaf.Values) : leaf.Values[i].t # "string"
           [] OTHER -> FALSE
    ELSE CASE leaf.op = "Eq" -> ~IsScalarValue(leaf.Value)
           [] leaf.op = "In" -> \E i \in 1..Len(leaf.Values) : ~IsScalarValue(leaf.Values[i])
           [] leaf.op \in {"Gt", "Lt"} -> ~IsNumericValue(leaf.Value)
           [] OTHER -> FALSE

RECURSIVE HasRefusedLeaf(_)
HasRefusedLeaf(filter) ==
    CASE filter.op \in {"Eq", "In", "Gt", "Lt", "Exists"} -> RefusedLeaf(filter)
      [] filter.op \in {"And", "Or"} ->
           \E i \in 1..Len(filter.Children) : HasRefusedLeaf(filter.Children[i])
      [] filter.op = "Not" -> HasRefusedLeaf(filter.Child)
      [] OTHER -> FALSE

\* C23: for a well-formed filter over known fields, compileMSSQLFilterSQL
\* fails with the pushdown-unsupported error exactly when the filter has a
\* column Eq/In/Gt/Lt with a non-string value, a metadata Eq/In with a nil
\* or non-scalar value, or a metadata Gt/Lt with a non-numeric value; in
\* every other case it succeeds, and it never fails with InvalidFilter.
C23_PushdownUnsupportedExactlyForRefusedLeaves ==
    (cpRestricted # << >> /\ WellFormedFilter(cpFilter) /\ FieldsKnown(cpFilter)) =>
        cpRestricted[1].err =
            IF HasRefusedLeaf(cpFilter) THEN errFilterPushdownUnsupported ELSE NoError

\* C23 witness: compileMSSQLFilterSQL has refused In(id, ["a", 5]) -- a
\* column In with a non-string value -- with pushdown-unsupported, and the
\* same-shaped In(id, ["a", "'a"]) compiled.
C23_ColumnInWithNumberRefused ==
    /\ cpFilter = In(Column(idColumn), <<GoString(strA), GoInt(5)>>)
    /\ cpRestricted # << >>
    /\ cpRestricted[1].err = errFilterPushdownUnsupported
    /\ cpRestricted[1].sql = << >>
    /\ WellFormedFilter(cpFilter) /\ FieldsKnown(cpFilter) /\ HasRefusedLeaf(cpFilter)

\* The filter is an Eq or an In on the metadata key "k", and the row stores
\* a JSON scalar under that key.
IsMetadataEqOrIn(filter) ==
    /\ filter.op \in {"Eq", "In"}
    /\ filter.Field = Metadata(<<strK>>)

FilterValuesOf(filter) ==
    IF filter.op = "Eq" THEN {filter.Value}
    ELSE {filter.Values[i] : i \in 1..Len(filter.Values)}

StoresScalarAtK(row) ==
    /\ strK \in DOMAIN row.metadata.map
    /\ row.metadata.map[strK].j \in {"string", "number", "bool"}

\* The JSON type a Go filter value is encoded as.
JsonTypeOf(value) ==
    CASE value.t = "string" -> "string"
      [] value.t \in {"int", "float64"} -> "number"
      [] value.t = "bool" -> "bool"
      [] value.t = "nil" -> "null"
      [] OTHER -> "other"

\* No value of the filter has the JSON type of the stored value.
TypesDiffer(filter, row) ==
    \A value \in FilterValuesOf(filter) : JsonTypeOf(value) # row.metadata.map[strK].j

\* C24: a metadata Eq/In that the restricted compiler accepted does not
\* select a row whose stored value has another JSON type than the filter
\* value: the string "10" does not match the number 10, the number 10 does
\* not match the string "10", true does not match the string "true".
C24_PushdownEqIsTypeAware ==
    (/\ fltPc \in {"executed", "done"}
     /\ IsMetadataEqOrIn(fltFilter)
     /\ StoresScalarAtK(fltRow)
     /\ TypesDiffer(fltFilter, fltRow)) => ~fltSelected

\* C24 for the in-process evaluator: matchesFilter does not match a stored
\* value of another JSON type.
C24_EvaluatorEqIsTypeAware ==
    (/\ fltPc = "done"
     /\ IsMetadataEqOrIn(fltFilter)
     /\ StoresScalarAtK(fltRow)
     /\ TypesDiffer(fltFilter, fltRow)) => (fltMatched.err = NoError => ~fltMatched.ok)

\* C24 witness: Eq(metadata k, true) was compiled and executed on a row
\* storing the JSON string "true" under k; the statement selected the row
\* and matchesFilter did not match it.
C24_BoolFilterSelectsStoredString ==
    /\ fltPc = "done"
    /\ fltFilter = Eq(Metadata(<<strK>>), GoBool(TRUE))
    /\ fltRow.metadata = JObject([key \in {strK} |-> JString(strTrue)])
    /\ fltCompiled.err = NoError
    /\ fltSelected
    /\ fltMatched.err = NoError /\ ~fltMatched.ok

\* What the statement compiled from a filter selects on a row, and what
\* matchesFilter answers for it.
SelectedBy(filter, row) ==
    LET compiled == compileMSSQLFilterSQL(filter, 1) IN
    SqlSelects(compiled.sql, compiled.args, 1, row)

MatchedBy(filter, row) == matchesFilter(filter, StreamedRecord(row)).ok

IsNegation(filter) == filter.op = "Not" /\ filter.Child # NilFilter

\* C25: in the pushed-down statement and in the in-process evaluator alike,
\* Not(f) matches a row exactly when f does not match it -- rows in which
\* the field of f is absent (no such metadata path, NULL content) included.
C25_NotMatchesExactlyWhenChildDoesNot ==
    IsNegation(fltFilter) =>
        /\ fltPc \in {"executed", "done"} =>
              fltSelected = ~SelectedBy(fltFilter.Child, fltRow)
        /\ (fltPc = "done" /\ fltMatched.err = NoError) =>
              fltMatched.ok = ~MatchedBy(fltFilter.Child, fltRow)

\* C25 for the in-process evaluator alone.
C25_EvaluatorNotIsComplement ==
    (IsNegation(fltFilter) /\ fltPc = "done" /\ fltMatched.err = NoError) =>
        fltMatched.ok = ~MatchedBy(fltFilter.Child, fltRow)

\* C25 witness: Not(Gt(content, "a")) was pushed down and run on a row whose
\* content is NULL; neither Gt(content, "a") nor its negation selects the
\* row in SQL, while matchesFilter matches the negation.
C25_NegationSkipsRowWithNullContent ==
    /\ fltPc = "done"
    /\ fltFilter = Not(Gt(Column(strContent), GoString(strA)))
    /\ fltRow.content = SqlNull
    /\ fltCompiled.err = NoError
    /\ ~fltSelected
    /\ ~SelectedBy(fltFilter.Child, fltRow)
    /\ fltMatched.err = NoError /\ fltMatched.ok

\* Every segment of the path resolves through nested JSON objects of the
\* stored document to a key that is present, whatever is stored under it.
RECURSIVE PathPresent(_, _)
PathPresent(doc, path) ==
    /\ doc.j = "object"
    /\ Head(path) \in DOMAIN doc.map
    /\ Len(path) > 1 => PathPresent(doc.map[Head(path)], Tail(path))

\* C26: matchesFilter answers Exists(Metadata(path)) without error, true
\* exactly when every segment resolves to a present key (a stored null
\* included) and false when a key is missing or an intermediate value is
\* not an object; Exists(Column(content)) is true exactly when the row has
\* content, and Exists(Column(id)) is always true.
C26_ExistsReportsResolution ==
    (fltPc = "done" /\ fltFilter.op = "Exists") =>
        CASE fltFilter.Field.Kind = FieldMetadata ->
               /\ fltMatched.err = NoError
               /\ fltMatched.ok = PathPresent(fltRow.metadata, fltFilter.Field.Path)
          [] fltFilter.Field = Column(strContent) ->
               /\ fltMatched.err = NoError
               /\ fltMatched.ok = (fltRow.content # SqlNull)
          [] fltFilter.Field = Column(strId) ->
               fltMatched.err = NoError /\ fltMatched.ok
          [] OTHER -> TRUE

\* C26 witness: Exists(Metadata("k", "n")) has been evaluated to true on a
\* row that stores {"k": {"n": null}}.
C26_ExistsOnStoredNull ==
    /\ fltPc = "done"
    /\ fltFilter = Exists(Metadata(<<strK, strN>>))
    /\ fltRow.metadata = JObject([key \in {strK} |-> JObject([key2 \in {strN} |-> JNull])])
    /\ fltMatched.err = NoError
    /\ fltMatched.ok

(***************************************************************************)
(* C27: the threshold on the three search paths.                           *)
(***************************************************************************)
\* The vector a stored row holds, as the backend's reader decodes it.
StoredVectorOf(row) ==
    IF srCollection.backend = "mssql" THEN decodeRow(row, TRUE).record.Vector
    ELSE row.vector

\* The row's distance from the request's query vector, as distanceBetween
\* measures it under the collection's metric.
RowDistance(row) ==
    distanceBetween(defaultMetric(srCollection.metric), srRequest.Vector, StoredVectorOf(row))

\* The row passes the request's filter, as matchesFilter decides it.
RowMatchesRequest(row) ==
    \/ srRequest.Options.Filter = NilFilter
    \/ LET matched == matchesFilter(srRequest.Options.Filter, decodeRow(row, TRUE).record)
       IN matched.err = NoError /\ matched.ok

ThresholdSearchAnswered ==
    /\ srPc = "returned"
    /\ srRequest.op = "SearchByVector"
    /\ srRequest.Options.Threshold.set
    /\ srResponse.err = NoError

\* The returned result ranks before the candidate in the order the path
\* sorts by: distance then id on MSSQL, distance alone on Postgres.
RanksNoLater(result, candidate) ==
    /\ result.Distance <= candidate.Distance
    /\ srCollection.backend = "mssql" => isBetterResult(result, candidate)

\* C27: when a SearchByVector with a threshold succeeds, on the Postgres
\* plan, the MSSQL SQL plan and the MSSQL streaming path alike, every result
\* has distance <= threshold, and a stored row that passes the filter and
\* lies at distance <= threshold (exactly at it included) is missing from the
\* results only when topK results are returned and each of them ranks before
\* that row.
C27_ThresholdKeepsExactlyRowsWithin ==
    ThresholdSearchAnswered =>
        /\ \A i \in DOMAIN srResponse.results :
             srResponse.results[i].Distance <= srRequest.Options.Threshold.value
        /\ \A row \in srTable :
             (/\ RowMatchesRequest(row)
              /\ RowDistance(row).err = NoError
              /\ RowDistance(row).distance <= srRequest.Options.Threshold.value
              /\ row.id \notin ResultIDs(srResponse.results))
                => /\ Len(srResponse.results) = srRequest.TopK
                   /\ \A i \in DOMAIN srResponse.results :
                        RanksNoLater(srResponse.results[i],
                                     SearchResult(row.id, RowDistance(row).distance))

\* C27 (witness): a search with a threshold returned a record lying exactly
\* at the threshold while another matching row, beyond the threshold, was
\* left out although fewer than topK results came back.
C27_ExactlyAtThresholdKeptBeyondDropped ==
    /\ ThresholdSearchAnswered
    /\ \E i \in DOMAIN srResponse.results :
         srResponse.results[i].Distance = srRequest.Options.Threshold.value
    /\ Len(srResponse.results) < srRequest.TopK
    /\ \E row \in srTable :
         /\ RowMatchesRequest(row)
         /\ RowDistance(row).err = NoError
         /\ RowDistance(row).distance > srRequest.Options.Threshold.value
         /\ row.id \notin ResultIDs(srResponse.results)

(***************************************************************************)
(* SpecMigrate: EnsureCollection calls on a database that already holds a  *)
(* table of the collection's name, made by hand or by an earlier version:  *)
(* any of its four columns may be missing or of another type, the primary  *)
(* key may be missing, and it holds rows.                                  *)
(***************************************************************************)
strInt == "int"

ExpectedType(backend, column) ==
    IF backend = "mssql" THEN "nvarchar"
    ELSE CASE column = "id" -> "text"
           [] column = "vector" -> "vector"
           [] column = "metadata" -> "jsonb"
           [] column = "content" -> "text"

ColumnTypes(backend, column) == {"", ExpectedType(backend, column), strInt}

\* The rows of a hand-made table: a cell for each column the table has.
MigrateRows(idType, vectorType, metadataType, contentType) ==
    {CatalogRow(IF idType = "" THEN NoCell ELSE row.id,
                IF vectorType = "" THEN NoCell ELSE row.vector,
                IF metadataType = "" THEN NoCell ELSE row.metadata,
                IF contentType = "" THEN NoCell ELSE row.content) :
        row \in {CatalogRow("a", "[1,0]", "{\"k\":1}", "x"),
                 CatalogRow("b", "[0,1]", "{}", NullCell)}}

MigrateTables(backend) ==
    {[TableShape(strA, idType, vectorType, pk, metadataType, contentType,
                 IF backend = "postgres" /\ vectorType = "vector" THEN 2 ELSE 0)
        EXCEPT !.rows = MigrateRows(idType, vectorType, metadataType, contentType)] :
        idType \in ColumnTypes(backend, "id"),
        vectorType \in ColumnTypes(backend, "vector"),
        pk \in BOOLEAN,
        metadataType \in ColumnTypes(backend, "metadata"),
        contentType \in ColumnTypes(backend, "content")}

\* On MSSQL the registry may or may not have the collection's row.
MigrateDatabases(backend) ==
    {Database({t}, registry, {}, TRUE) :
        t \in MigrateTables(backend),
        registry \in IF backend = "mssql"
                     THEN {{}, {RegistryRow(strA, 2, DistanceCosine)}}
                     ELSE {{}}}

InitMigrate ==
    /\ ecStore \in EnsureStores
    /\ ecDb \in MigrateDatabases(ecStore.backend)
    /\ ecCalls = << >>
    /\ ecHistory = << >>
    /\ FilterIdle
    /\ HeapIdle
    /\ SearchIdle
    /\ WriteIdle
    /\ CompileIdle
    /\ UpsertIdle

NextMigrate == EnsureCollectionMSSQL \/ EnsureCollectionPostgres

SpecMigrate == InitMigrate /\ [][NextMigrate]_vars

\* What call i was asked for once normalized, and the table of that name
\* before and after it.
NormalizedOf(i) ==
    normalizeCollectionSpec(ecStore.backend, ecHistory[i].spec, ecStore.strictByDefault)

TableBefore(i) == CHOOSE t \in tablesNamed(ecHistory[i].before, NormalizedOf(i).spec.Name) : TRUE
TableAfter(i) == CHOOSE t \in tablesNamed(ecHistory[i].after, NormalizedOf(i).spec.Name) : TRUE

\* Call i was a well-formed EnsureCollection for a table that existed.
EnsuredExistingTable(i) ==
    /\ IsEnsure(i)
    /\ NormalizedOf(i).err = NoError
    /\ tableExists(ecHistory[i].before, NormalizedOf(i).spec.Name)

\* Every column the table had keeps its type, the primary key and the vector
\* dimension stay, and every row is still there with the same cells in the
\* columns the table had.
KeepsColumnsAndRows(before, after) ==
    /\ before.idType # "" => after.idType = before.idType
    /\ before.vectorType # "" => after.vectorType = before.vectorType
    /\ before.metadataType # "" => after.metadataType = before.metadataType
    /\ before.contentType # "" => after.contentType = before.contentType
    /\ after.pk = before.pk
    /\ after.dimension = before.dimension
    /\ Cardinality(after.rows) = Cardinality(before.rows)
    /\ \A r \in before.rows : \E kept \in after.rows :
         /\ before.idType # "" => kept.id = r.id
         /\ before.vectorType # "" => kept.vector = r.vector
         /\ before.metadataType # "" => kept.metadata = r.metadata
         /\ before.contentType # "" => kept.content = r.content

\* The only columns that may appear are metadata and content, with the
\* backend's types.
AddsOnlyOptionalColumns(before, after) ==
    /\ after.idType = before.idType
    /\ after.vectorType = before.vectorType
    /\ after.metadataType \in {before.metadataType, ExpectedType(ecStore.backend, "metadata")}
    /\ after.contentType \in {before.contentType, ExpectedType(ecStore.backend, "content")}

MissingOptionalColumn(t) == t.metadataType = "" \/ t.contentType = ""

\* id and vector are present with the backend's types and id carries the
\* primary key.
RequiredColumnsSound(t) ==
    /\ t.idType # "" /\ t.vectorType # ""
    /\ IF ecStore.backend = "mssql"
       THEN isStringType(t.idType) /\ isStringType(t.vectorType)
       ELSE t.idType = "text" /\ t.vectorType = "vector"
    /\ t.pk

WrongOptionalType(t) ==
    \/ t.metadataType = strInt
    \/ t.contentType = strInt

\* C28: an EnsureCollection on an existing table keeps the table, every
\* column it had and every row; in auto-migrate mode the only change is that
\* missing metadata / content columns are added (both are there after a
\* success); in strict mode a missing optional column fails with
\* SchemaMismatch and leaves the database as it was; in both modes a missing
\* id or vector column, a column of a wrong type or a missing primary key on
\* id fails with SchemaMismatch.
C28_EnsureOnExistingTableOnlyAddsOptionalColumns ==
    \A i \in 1..Len(ecHistory) :
        EnsuredExistingTable(i) =>
            /\ tableExists(ecHistory[i].after, NormalizedOf(i).spec.Name)
            /\ ecHistory[i].after.tables = {TableAfter(i)}
            /\ KeepsColumnsAndRows(TableBefore(i), TableAfter(i))
            /\ AddsOnlyOptionalColumns(TableBefore(i), TableAfter(i))
            /\ (NormalizedOf(i).mode = EnsureAutoMigrate /\ ecHistory[i].err = NoError)
                  => ~MissingOptionalColumn(TableAfter(i))
            /\ (NormalizedOf(i).mode = EnsureStrict /\ MissingOptionalColumn(TableBefore(i)))
                  => /\ ecHistory[i].err = ErrSchemaMismatch
                     /\ ecHistory[i].after = ecHistory[i].before
            /\ (~RequiredColumnsSound(TableBefore(i)) \/ WrongOptionalType(TableBefore(i)))
                  => ecHistory[i].err = ErrSchemaMismatch

\* C28 (witness): an auto-migrate call succeeded on a table that lacked both
\* optional columns and held rows; the rows now carry the default metadata
\* and a NULL content.
C28_AutoMigrateAddedBothColumns ==
    \E i \in 1..Len(ecHistory) :
        /\ EnsuredExistingTable(i)
        /\ NormalizedOf(i).mode = EnsureAutoMigrate
        /\ ecHistory[i].err = NoError
        /\ TableBefore(i).metadataType = "" /\ TableBefore(i).contentType = ""
        /\ TableBefore(i).rows # {}
        /\ \A r \in TableAfter(i).rows :
             r.metadata = DefaultMetadataCell /\ r.content = NullCell

(***************************************************************************)
(* SpecHandles: one MSSQL store, starting empty.  The caller obtains       *)
(* handles on the collection "a" from EnsureCollection and from            *)
(* Collection(name, dimension, metric), and writes single records through  *)
(* the handle it holds.  ecDb is the catalog and the registry, wrTable the *)
(* rows of the collection's table, wrCollection the handle held            *)
(* (dimension 0: none yet).                                                *)
(***************************************************************************)
MaxHandleCalls == 3

errInvalidObjectName == "mssql: Invalid object name"

NoCollectionHeld == [backend |-> "mssql", dimension |-> 0, metric |-> ""]

HandleDimensions == {1, 2}

HandleSpecs ==
    {CollectionSpec(strA, d, DistanceCosine, mode) :
        d \in HandleDimensions, mode \in {EnsureStrict, EnsureAutoMigrate}}

HandleRecords ==
    {Record(strA, <<1, 0>>, GoNil, GoNil),
     Record(strA, <<1>>, GoNil, GoNil),
     Record(strB, <<1>>, GoNil, GoNil),
     Record(strB, <<0, 1>>, GoNil, GoNil)}

InitHandles ==
    /\ ecStore \in {[backend |-> "mssql", strictByDefault |-> s] : s \in BOOLEAN}
    /\ ecDb = EmptyDatabase
    /\ ecCalls = << >>
    /\ ecHistory = << >>
    /\ wrCollection = NoCollectionHeld
    /\ wrTable = {}
    /\ wrHistory = << >>
    /\ wrPc = "ready"
    /\ FilterIdle
    /\ HeapIdle
    /\ SearchIdle
    /\ CompileIdle
    /\ UpsertIdle

otherThanHandles == <<filterVars, heapVars, searchVars, upsertVars, compileVars>>

HandleCallsLeft == Len(ecHistory) + Len(wrHistory) < MaxHandleCalls

\* store.EnsureCollection(spec): the caller keeps the handle it returns.
ensuredInSession(spec, s) ==
    /\ ecDb' = s.db
    /\ ecHistory' = Append(ecHistory, EnsureReturned(spec, ecDb, s))
    /\ wrCollection' = IF s.call.err = NoError
                       THEN [backend |-> "mssql", dimension |-> s.call.handle.dimension,
                             metric |-> s.call.handle.metric]
                       ELSE wrCollection

EnsureCollectionInSession ==
    /\ HandleCallsLeft
    /\ \E spec \in HandleSpecs :
         ensuredInSession(spec, EnsureCollection("mssql", ecStore.strictByDefault, ecDb, spec))
    /\ UNCHANGED <<ecStore, ecCalls, wrTable, wrHistory, wrPc>>
    /\ UNCHANGED otherThanHandles

\* store.Collection("a", dimension, metric): no statement is sent.
CollectionInSession ==
    /\ HandleCallsLeft
    /\ \E dimension \in HandleDimensions :
         wrCollection' = [backend |-> "mssql", dimension |-> dimension,
                          metric |-> newCollectionHandle("mssql", strA, dimension,
                                                         DistanceCosine).metric]
    /\ UNCHANGED <<ecStore, ecDb, ecCalls, ecHistory, wrTable, wrHistory, wrPc>>
    /\ UNCHANGED otherThanHandles

\* A write through the held handle; the statement fails in the engine when
\* the table does not exist.
writeThroughHandle(record, mode) ==
    IF tableExists(ecDb, strA)
    THEN writeRecords(wrCollection, wrTable, <<record>>, mode, NoFault, 0)
    ELSE IF validateVectorDimension(wrCollection.dimension, record.Vector) # NoError
    THEN [err |-> ErrDimensionMismatch, table |-> wrTable, failedStart |-> 0]
    ELSE [err |-> errInvalidObjectName, table |-> wrTable, failedStart |-> 0]

InsertThroughHandle ==
    /\ HandleCallsLeft
    /\ wrCollection # NoCollectionHeld
    /\ \E record \in HandleRecords :
         WriteReturned("Insert", wrCollection, <<record>>, NoFault,
                       writeThroughHandle(record, writeModeInsert))
    /\ UNCHANGED <<ecStore, ecDb, ecCalls, ecHistory, wrCollection, wrPc>>
    /\ UNCHANGED otherThanHandles

UpsertThroughHandle ==
    /\ HandleCallsLeft
    /\ wrCollection # NoCollectionHeld
    /\ \E record \in HandleRecords :
         WriteReturned("Upsert", wrCollection, <<record>>, NoFault,
                       writeThroughHandle(record, writeModeUpsert))
    /\ UNCHANGED <<ecStore, ecDb, ecCalls, ecHistory, wrCollection, wrPc>>
    /\ UNCHANGED otherThanHandles

NextHandles ==
    \/ EnsureCollectionInSession
    \/ CollectionInSession
    \/ InsertThroughHandle
    \/ UpsertThroughHandle

SpecHandles == InitHandles /\ [][NextHandles]_vars

\* The dimensions the registry records for the collection.
RegisteredDimensions == {r.dimension : r \in {r \in ecDb.registry : r.name = strA}}

StoredVectorLengths == {Len(decodeRow(row, TRUE).record.Vector) : row \in wrTable}

\* C29: on MSSQL, after any sequence of EnsureCollection, Collection, Insert
\* and Upsert calls, every stored row's vector has the length the registry
\* records as the collection's dimension.
C29_StoredVectorsHaveRegisteredDimension ==
    \A length \in StoredVectorLengths : \A dimension \in RegisteredDimensions :
        length = dimension

\* C29 (witness): the registry records dimension 2 for the collection that
\* EnsureCollection created, and an Upsert through a handle from
\* Collection("a", 1, cosine) succeeded and left a row whose vector has
\* length 1.
C29_UncheckedHandleStoredOtherLength ==
    /\ RegisteredDimensions = {2}
    /\ 1 \in StoredVectorLengths
    /\ Len(wrHistory) > 0
    /\ wrHistory[Len(wrHistory)].op = "Upsert"
    /\ wrHistory[Len(wrHistory)].handle.dimension = 1
    /\ wrHistory[Len(wrHistory)].err = NoError

\* Rows written through handles that EnsureCollection returned do have the
\* registered dimension: as long as every write so far went through a handle
\* of the registered dimension, C29's statement holds.
C29_HoldsWhileHandlesHaveRegisteredDimension ==
    (\A i \in 1..Len(wrHistory) : {wrHistory[i].handle.dimension} = RegisteredDimensions)
        => C29_StoredVectorsHaveRegisteredDimension

(***************************************************************************)
(* C30: a stored vector of another length on the two MSSQL search paths.   *)
(***************************************************************************)
\* The rows whose stored vector has another length than the collection's
\* dimension.
ForeignRows ==
    {row \in srTable : Len(decodeRow(row, TRUE).record.Vector) # srCollection.dimension}

ForeignIDs == {row.id : row \in ForeignRows}

MSSQLSearchReturned ==
    /\ srPc = "returned"
    /\ srCollection.backend = "mssql"
    /\ srRequest.op = "SearchByVector"

\* searchByVectorStreaming on the request of this state, for a scan order.
StreamedOnRequest(scan) ==
    searchByVectorStreaming(srCollection, scan, srRequest.Vector, srRequest.TopK,
                            srRequest.Options)

\* SearchByVector on the query of this state without its filter, which the
\* SQL plan answers.
SqlPlanOnQuery ==
    mssqlSearchByVector(srCollection, srTable, << >>, srRequest.Vector, srRequest.TopK,
                        SearchOptions(NilFilter, srRequest.Options.Threshold))

\* C30: on MSSQL, when the table holds a row whose stored vector has another
\* length than the collection dimension, a search the SQL plan answered has
\* the same outcome when the streaming path runs it: both fail, or both
\* succeed and leave that row out.
C30_BothPathsTreatForeignRowAlike ==
    (MSSQLSearchReturned /\ srResponse.ranSQL /\ ForeignRows # {}) =>
        \A scan \in ArrivalOrders(srTable) :
            /\ (StreamedOnRequest(scan).err # NoError) = (srResponse.err # NoError)
            /\ StreamedOnRequest(scan).err = NoError =>
                 /\ ResultIDs(srResponse.results) \cap ForeignIDs = {}
                 /\ ResultIDs(StreamedOnRequest(scan).results) \cap ForeignIDs = {}

\* C30 (witness): the streaming fallback answered a search on a table holding
\* a row of another vector length and failed with DimensionMismatch, while
\* the SQL plan on the same table and query succeeds and leaves the row out.
C30_StreamingFailsWhereSqlPlanLeavesOut ==
    /\ MSSQLSearchReturned
    /\ srResponse.ranStreaming
    /\ srResponse.err = ErrDimensionMismatch
    /\ ForeignRows # {}
    /\ SqlPlanOnQuery.ranSQL
    /\ SqlPlanOnQuery.err = NoError
    /\ ResultIDs(SqlPlanOnQuery.results) \cap ForeignIDs = {}
    /\ SqlPlanOnQuery.results # << >>

\* The SQL plan never fails on such a row and never returns it; the
\* streaming path always fails on a table that holds one.
C30_SqlPlanLeavesOutStreamingFails ==
    (MSSQLSearchReturned /\ ForeignRows # {}) =>
        /\ srResponse.ranSQL =>
             /\ srResponse.err = NoError
             /\ ResultIDs(srResponse.results) \cap ForeignIDs = {}
        /\ srResponse.ranStreaming => srResponse.err # NoError

=============================================================================
